---------------------------- MODULE Spec2Model ----------------------------
(***************************************************************************)
(* Model of the network transport layer of alfarid:                        *)
(*   - TCPPacketAssembler.feed          (src/src/network/protocol.py)      *)
(*   - Protocol.pack / Protocol.unpack  (src/src/network/protocol.py)      *)
(*   - TeacherServer / ClientHandler    (src/src/network/server.py)        *)
(*   - StudentClient._send_raw          (src/src/network/client.py)        *)
(* Byte strings are sequences of naturals.                                 *)
(***************************************************************************)
EXTENDS Integers, Sequences, FiniteSets, TLC

VARIABLES
    \* ---- TCPPacketAssembler and the byte stream fed to it
    segs,              \* the kinds of the segments the peer wrote, in order
    stream,            \* the bytes the peer wrote (concatenation of segs)
    pos,               \* number of bytes of stream already passed to feed()
    buffer,            \* TCPPacketAssembler.buffer
    sync_recoveries,   \* _stats['sync_recoveries']
    packets_assembled, \* _stats['packets_assembled']
    bytes_processed,   \* _stats['bytes_processed']
    apc,               \* position of the feed() call: "idle" or "loop"
    packets,           \* the local list `packets` of the running feed() call
    startLen,          \* len(self.buffer) when the running call entered its loop
    iters,             \* iterations of the running call that stayed in the loop
    calls,             \* number of feed() calls made so far, counted up to CallsCap
    out,               \* every packet returned so far, with its offset in stream
    \* ---- one Protocol.pack / Protocol.unpack round
    m_type,            \* msg_type passed to pack (a string, as its characters)
    m_data,            \* data passed to pack (a dict, as a JSON value)
    m_compress,        \* compress passed to pack
    m_ts,              \* what get_timestamp() returned inside pack
    ppc,               \* "ready", "packed" or "unpacked"
    packed,            \* the bytes pack returned
    unpacked,          \* what unpack returned: [ok |-> FALSE] models None
    \* ---- concurrent send_packet / _send_raw calls on one endpoint
    ekind,             \* "server" (ClientHandler) or "client" (StudentClient)
    econnected,        \* ClientHandler.connected
    sockClosed,        \* the endpoint's socket has been closed
    lockHolder,        \* the thread inside `with self._send_lock` (0: none)
    tpc,               \* per sender thread: "idle", "wait", "sending", "done"
    tsent,             \* per sender thread: total_sent
    tret,              \* per sender thread: "none", or the value returned
    wire,              \* the bytes the socket accepted, in order
    \* ---- TeacherServer: connection handler threads and the heartbeat sweep
    hpc,               \* per connection: position of its _handle_client thread
    hconn,             \* per connection: ClientHandler.connected
    hmid,              \* per connection: the identity its STUDENT_CONNECT carries
    hsid,              \* per connection: local student_id of _handle_client
    hstud,             \* per connection: ClientHandler.student_id
    students,          \* TeacherServer.students: identity -> record or NoRec
    client_handlers,   \* TeacherServer.client_handlers: identity -> connection
    now,               \* time.time()
    spc,               \* position of the _check_heartbeats thread
    to_remove,         \* students_to_remove still to be handled
    scur,              \* student_id of the sweep's current loop iteration
    connFired,         \* per identity: on_student_connected calls so far
    discFired,         \* per identity: on_student_disconnected calls so far
    sweepFired,        \* connections whose record the sweep removed
    ownFired,          \* connections whose own cleanup fired the callback
    hreq,              \* per connection: shape of its STUDENT_CONNECT request
    hreply,            \* per connection: the last frame written to it
    hfirst,            \* per connection: the first frame written to it
    srunning,          \* TeacherServer.running
    \* ---- TeacherServer: messages received, send_to_student, broadcast_to_all
    hlast,             \* per connection: type of the last message its loop handled
    msgFired,          \* connections on_message_received was called for
    bpc,               \* broadcast_to_all call: "idle", "packed", "send", "done"
    bexclude,          \* its argument exclude
    bmsg,              \* its local message: "frame", or "empty" (pack returned b'')
    bregistered,       \* client_handlers as it was in the call's lock block
    bsnap,             \* its list handlers_to_send
    btodo,             \* the entries of handlers_to_send not yet reached
    battempt,          \* per connection: send_packet calls the call made on it
    bwrote,            \* per connection: frames the call wrote to it
    qpc,               \* send_to_student call: "idle", "found", "done"
    qid,               \* its argument student_id
    qenc,              \* Protocol.pack can encode its msg_type and data
    qh,                \* its local handler
    qret,              \* "none", or the value it returned
    qwrote,            \* what it wrote to the endpoint: "none", "frame", "empty"
    qcounted,          \* it incremented _stats['messages_sent']
    ncalls,            \* send_to_student / broadcast_to_all calls begun so far
    stoppc,            \* the stop() call: "idle", "flag" (running cleared), "done"
    students_lock,     \* the thread inside `with self._students_lock` (0: none)
    incb,              \* per thread: the callback it is running ("none": none)
    \* ---- StudentClient: connect_to_teacher, its two threads, disconnect
    cpc,               \* the caller: "idle", "wait", "up" (True), "failed" (False)
    cconnected,        \* StudentClient.connected
    csock,             \* tcp_socket: "none" (None) or "open"
    casm,              \* packet_assembler is not None
    cwire,             \* frames the server wrote and the client has not read
    srvOpen,           \* the server's side of the connection is open
    nsent,             \* frames the server wrote so far
    expected,          \* frames written after the accept reply that are messages
    delivered,         \* frames handed to on_message_received, in order
    rpc,               \* _receive_messages thread: "off", "run", "disc", "ended"
    hbpc,              \* _send_heartbeat thread: "off", "run", "ended"
    hbFailed,          \* the heartbeat loop ended on a failed send while connected
    dpc,               \* per thread: position inside disconnect()
    closes,            \* times disconnect() closed the socket
    cdisc,             \* on_disconnected calls so far
    \* ---- StudentClient: disconnect() followed by connect_to_teacher()
    kconnected,        \* StudentClient.connected
    ksock,             \* tcp_socket: 0 (None), or the number of its connection
    kopen,             \* the connections whose socket the client has not closed
    kgen,              \* connections opened so far
    kacc,              \* the last connection that was accepted (0: none)
    kcpc,              \* the caller: "idle", "wait" (in connect_to_teacher), "up"
    kdpc,              \* per thread: position inside disconnect()
    krpc,              \* per connection: its _receive_messages thread
    krsock,            \* per connection: the socket that thread is reading
    khpc,              \* per connection: its _send_heartbeat thread
    kpings,            \* (connection of the loop, socket) of the PINGs sent
    kdisc,             \* on_disconnected calls so far
    \* ---- StudentClient._listen_broadcasts (discovery)
    available_teachers,  \* StudentClient.available_teachers: id -> Teacher
    teacherFound,      \* the ids on_teacher_found was called with, in order
    heard,             \* (address, port) of the announcements handled so far
    nheard,            \* datagrams received so far
    \* ---- ScreenReceiverOptimized behind a MulticastReceiver
    last_frame,        \* ScreenReceiverOptimized.last_frame (None: no frame)
    last_frame_number, \* ScreenReceiverOptimized.last_frame_number
    frames_received_multicast,  \* ScreenReceiverOptimized.frames_received_multicast
    accepted,          \* the frame numbers accepted so far, in order
    nrx,               \* datagrams received so far
    \* ---- MulticastSender
    mrunning,          \* MulticastSender.running
    msock,             \* MulticastSender.sock: "open", "closed" or "none" (None)
    mgroup,            \* the receivers that joined the group
    mwire,             \* the datagrams written to the group address, in order
    packets_sent,      \* MulticastSender.packets_sent
    mpc,               \* per sending thread: "idle", "checked"
    mret,              \* per sending thread: "none", or what its last send returned
    mclosed,           \* close() has returned
    nsend              \* send calls begun so far

asmVars == <<segs, stream, pos, buffer, sync_recoveries, packets_assembled,
             bytes_processed, apc, packets, startLen, iters, calls, out>>

protoVars == <<m_type, m_data, m_compress, m_ts, ppc, packed, unpacked>>

sendVars == <<ekind, econnected, sockClosed, lockHolder, tpc, tsent, tret, wire>>

srvVars == <<hpc, hconn, hmid, hsid, hstud, students, client_handlers, now,
             spc, to_remove, scur, connFired, discFired, sweepFired, ownFired,
             hreq, hreply, hfirst, srunning>>

apiVars == <<hlast, msgFired, bpc, bexclude, bmsg, bregistered, bsnap, btodo, battempt, bwrote,
             qpc, qid, qenc, qh, qret, qwrote, qcounted, ncalls,
             stoppc, students_lock, incb>>

cliVars == <<cpc, cconnected, csock, casm, cwire, srvOpen, nsent, expected,
             delivered, rpc, hbpc, hbFailed, dpc, closes, cdisc>>

reVars == <<kconnected, ksock, kopen, kgen, kacc, kcpc, kdpc, krpc, krsock,
            khpc, kpings, kdisc>>

discVars == <<available_teachers, teacherFound, heard, nheard>>

rxVars == <<last_frame, last_frame_number, frames_received_multicast, accepted, nrx>>

mcVars == <<mrunning, msock, mgroup, mwire, packets_sent, mpc, mret,
            mclosed, nsend>>

dgramVars == <<discVars, rxVars, mcVars>>

vars == <<asmVars, protoVars, sendVars, srvVars, cliVars, dgramVars, apiVars,
          reVars>>

-----------------------------------------------------------------------------
(* Bounds of the model *)

\* number of segments (frames, garbage runs) written to one stream
MaxSegs == 3

\* TCPPacketAssembler(max_packet_size=...) of the modelled assembler
MaxPacketSize == 15

\* feed() calls are counted up to this number
CallsCap == 3

\* threads that call send_packet / _send_raw on the same endpoint, one call each
NSenders == 2

\* TCP connections the server accepts
NConn == 2

\* identities (machine id + address) the connections can present
NIds == 1

\* the clock stops here
MaxTime == 31

\* frames the server writes to the client's connection
MaxFrames == 3

\* datagrams a listener (discovery, screen receiver) receives
MaxDatagrams == 3

\* frame numbers the capture side tags its frames with: 0..MaxFrameNumber
MaxFrameNumber == 5

\* receivers that can join the multicast group
NReceivers == 2

\* MulticastSender.send calls
MaxSends == 3

\* connections that send PING and other messages before and after registering
NEarly == 1

\* calls of connect_to_teacher on one StudentClient
MaxConnects == 2

\* send_to_student and broadcast_to_all calls
MaxCalls == 1

\* Protocol.MAX_PACKET_SIZE, scaled down from 10 MiB to the size of the
\* messages that are packed here
MAX_PACKET_SIZE == 1030

-----------------------------------------------------------------------------
(* Byte-string helpers (Python slicing) *)

Min(a, b) == IF a < b THEN a ELSE b
Max(a, b) == IF a > b THEN a ELSE b

\* s[:n]
Take(s, n) == SubSeq(s, 1, Min(n, Len(s)))
\* s[n:]
Drop(s, n) == SubSeq(s, Min(n, Len(s)) + 1, Len(s))
\* s[-n:]  (n > 0)
LastN(s, n) == SubSeq(s, Max(Len(s) - n, 0) + 1, Len(s))

RECURSIVE Concat(_)
Concat(ss) == IF ss = <<>> THEN <<>> ELSE Head(ss) \o Concat(Tail(ss))

-----------------------------------------------------------------------------
(* Protocol: header layout '!4sHIB' *)

MAGIC == <<65, 70, 82, 68>>
VERSION == 2
HEADER_SIZE == 11
None == -1

\* struct.pack('!H', v)
PackU16(v) == <<(v \div 256) % 256, v % 256>>
\* struct.pack('!I', v)
PackU32(v) == <<(v \div 16777216) % 256, (v \div 65536) % 256,
                (v \div 256) % 256, v % 256>>
\* struct.unpack('!I', b)
UnpackU32(b) == b[1] * 16777216 + b[2] * 65536 + b[3] * 256 + b[4]

\* struct.pack(HEADER_FORMAT, MAGIC, VERSION, length, compressed_flag)
PackHeader(length, flag) == MAGIC \o PackU16(VERSION) \o PackU32(length) \o <<flag>>

\* Protocol.get_packet_length(header)
GetPacketLengthPayloadOnly(header) ==
    IF Len(header) < HEADER_SIZE THEN None
    ELSE IF SubSeq(header, 1, 4) # MAGIC THEN None
    ELSE UnpackU32(SubSeq(header, 7, 10))

GetPacketLength(header) ==
    IF Len(header) < HEADER_SIZE THEN None
    ELSE IF SubSeq(header, 1, 4) # MAGIC THEN None
    ELSE HEADER_SIZE + UnpackU32(SubSeq(header, 7, 10))

-----------------------------------------------------------------------------
(* JSON text as json.dumps(message, ensure_ascii=False).encode('utf-8')      *)
(* writes it and json.loads reads it. A JSON value is a record: a string    *)
(* (t = "s", characters in s), a number (t = "n", value n) or an object     *)
(* (t = "o", members in m, each [k |-> key characters, v |-> value]).       *)

JS(str) == [t |-> "s", s |-> str, n |-> 0, m |-> <<>>]
JN(num) == [t |-> "n", s |-> <<>>, n |-> num, m |-> <<>>]
JO(mem) == [t |-> "o", s |-> <<>>, n |-> 0, m |-> mem]

QUOTE == 34
BACKSLASH == 92
SPACE == 32
COMMA == 44
COLON == 58
LBRACE == 123
RBRACE == 125
DigitChars == 48..57

\* a string body with '"' and '\' escaped (split in halves: the recursion
\* is as deep as the logarithm of the length)
RECURSIVE EscapeStr(_)
EscapeStr(str) ==
    IF Len(str) = 0 THEN <<>>
    ELSE IF Len(str) = 1
    THEN IF str[1] \in {QUOTE, BACKSLASH} THEN <<BACKSLASH, str[1]>> ELSE str
    ELSE LET h == Len(str) \div 2
         IN  EscapeStr(SubSeq(str, 1, h)) \o EscapeStr(SubSeq(str, h + 1, Len(str)))

RECURSIVE DigitsOf(_)
DigitsOf(num) ==
    IF num < 10 THEN <<48 + num>> ELSE DigitsOf(num \div 10) \o <<48 + (num % 10)>>

JStr(str) == <<QUOTE>> \o EscapeStr(str) \o <<QUOTE>>

\* json.dumps: members separated by ", ", key and value by ": "
RECURSIVE JsonDumps(_), DumpMembers(_)
JsonDumps(v) ==
    CASE v.t = "s" -> JStr(v.s)
      [] v.t = "n" -> DigitsOf(v.n)
      [] v.t = "o" -> <<LBRACE>> \o DumpMembers(v.m) \o <<RBRACE>>

DumpMembers(mem) ==
    IF mem = <<>> THEN <<>>
    ELSE JStr(mem[1].k) \o <<COLON, SPACE>> \o JsonDumps(mem[1].v)
         \o (IF Len(mem) = 1 THEN <<>> ELSE <<COMMA, SPACE>> \o DumpMembers(Tail(mem)))

\* the number of backslashes that directly precede position p of b
BackslashRun(b, p) ==
    CHOOSE k \in 0..(p - 1) :
        /\ (k = p - 1 \/ b[p - 1 - k] # BACKSLASH)
        /\ \A j \in 1..k : b[p - j] = BACKSLASH

\* position p of b is escaped by a backslash before it
Escaped(b, p) == BackslashRun(b, p) % 2 = 1

\* a string body without its escaping backslashes
Unescape(body) ==
    LET tagged == [p \in 1..Len(body) |-> <<p, body[p]>>]
        Keep(e) == ~(e[2] = BACKSLASH /\ ~Escaped(body, e[1]))
        kept == SelectSeq(tagged, Keep)
    IN  [p \in 1..Len(kept) |-> kept[p][2]]

ParseFail == [ok |-> FALSE, v |-> JN(0), next |-> 0]

\* first position >= i of b that holds no space (Len(b) + 1 if there is none)
SkipWs(b, i) ==
    IF \E j \in i..Len(b) : b[j] # SPACE
    THEN CHOOSE j \in i..Len(b) :
            b[j] # SPACE /\ \A j2 \in i..(j - 1) : b[j2] = SPACE
    ELSE Len(b) + 1

\* a string literal starting at b[i] = '"'
ParseString(b, i) ==
    LET Closes(j) == b[j] = QUOTE /\ ~Escaped(SubSeq(b, i + 1, j), j - i)
    IN  IF \E j \in (i + 1)..Len(b) : Closes(j)
        THEN LET e == CHOOSE j \in (i + 1)..Len(b) :
                         Closes(j) /\ \A j2 \in (i + 1)..(j - 1) : ~Closes(j2)
             IN  [ok |-> TRUE, v |-> JS(Unescape(SubSeq(b, i + 1, e - 1))),
                  next |-> e + 1]
        ELSE ParseFail

RECURSIVE DigitsVal(_)
DigitsVal(ds) ==
    IF ds = <<>> THEN 0 ELSE 10 * DigitsVal(SubSeq(ds, 1, Len(ds) - 1)) + (ds[Len(ds)] - 48)

\* a number literal starting at the digit b[i]
ParseNumber(b, i) ==
    LET e == IF \E j \in i..Len(b) : b[j] \notin DigitChars
             THEN CHOOSE j \in i..Len(b) :
                     b[j] \notin DigitChars /\ \A j2 \in i..(j - 1) : b[j2] \in DigitChars
             ELSE Len(b) + 1
    IN  [ok |-> TRUE, v |-> JN(DigitsVal(SubSeq(b, i, e - 1))), next |-> e]

RECURSIVE ParseValue(_, _), ParseMembers(_, _, _)
ParseValue(b, i) ==
    IF i > Len(b) THEN ParseFail
    ELSE IF b[i] = QUOTE THEN ParseString(b, i)
    ELSE IF b[i] \in DigitChars THEN ParseNumber(b, i)
    ELSE IF b[i] = LBRACE
    THEN LET j == SkipWs(b, i + 1)
         IN  IF j <= Len(b) /\ b[j] = RBRACE
             THEN [ok |-> TRUE, v |-> JO(<<>>), next |-> j + 1]
             ELSE ParseMembers(b, j, <<>>)
    ELSE ParseFail

\* the members of an object from the key at b[i] on; acc holds those before
ParseMembers(b, i, acc) ==
    IF i > Len(b) \/ b[i] # QUOTE THEN ParseFail
    ELSE LET key == ParseString(b, i)
         IN  IF ~key.ok THEN ParseFail
             ELSE LET c == SkipWs(b, key.next)
                  IN  IF c > Len(b) \/ b[c] # COLON THEN ParseFail
                      ELSE LET val == ParseValue(b, SkipWs(b, c + 1))
                           IN  IF ~val.ok THEN ParseFail
                               ELSE LET d == SkipWs(b, val.next)
                                        mem == Append(acc, [k |-> key.v.s, v |-> val.v])
                                    IN  IF d > Len(b) THEN ParseFail
                                        ELSE IF b[d] = RBRACE
                                        THEN [ok |-> TRUE, v |-> JO(mem), next |-> d + 1]
                                        ELSE IF b[d] = COMMA
                                        THEN ParseMembers(b, SkipWs(b, d + 1), mem)
                                        ELSE ParseFail

\* json.loads(text): the value, or ok = FALSE for json.JSONDecodeError
JsonLoads(b) ==
    LET r == ParseValue(b, SkipWs(b, 1))
    IN  IF r.ok /\ SkipWs(b, r.next) = Len(b) + 1
        THEN [ok |-> TRUE, v |-> r.v]
        ELSE [ok |-> FALSE, v |-> JN(0)]

\* dict.get(key) on a JSON object: the member's value, or ok = FALSE
Get(obj, key) ==
    IF obj.t = "o" /\ \E i \in 1..Len(obj.m) : obj.m[i].k = key
    THEN [ok |-> TRUE,
          v |-> obj.m[CHOOSE i \in 1..Len(obj.m) : obj.m[i].k = key].v]
    ELSE [ok |-> FALSE, v |-> JN(0)]

-----------------------------------------------------------------------------
(* zlib: the stream format with its two header bytes and an Adler checksum  *)
(* of the data; the data travels in a stored block.                         *)

ZLIB_HEADER == <<120, 156>>

RECURSIVE SumBytes(_)
SumBytes(b) ==
    IF Len(b) = 0 THEN 0
    ELSE IF Len(b) = 1 THEN b[1]
    ELSE LET h == Len(b) \div 2
         IN  SumBytes(SubSeq(b, 1, h)) + SumBytes(SubSeq(b, h + 1, Len(b)))

\* the low half of Adler-32
Adler(b) == PackU16((1 + SumBytes(b)) % 65521)

\* zlib.compress(payload, level=6)
ZlibCompress(b) == ZLIB_HEADER \o b \o Adler(b)

\* zlib.decompress(payload): ok = FALSE stands for zlib.error
ZlibDecompress(z) ==
    IF Len(z) >= 4 /\ SubSeq(z, 1, 2) = ZLIB_HEADER
       /\ SubSeq(z, Len(z) - 1, Len(z)) = Adler(SubSeq(z, 3, Len(z) - 2))
    THEN [ok |-> TRUE, v |-> SubSeq(z, 3, Len(z) - 2)]
    ELSE [ok |-> FALSE, v |-> <<>>]

-----------------------------------------------------------------------------
(* Protocol.pack and Protocol.unpack *)

\* the characters of the keys serialize_message writes
KEY_TYPE == <<116, 121, 112, 101>>
KEY_TIMESTAMP == <<116, 105, 109, 101, 115, 116, 97, 109, 112>>
KEY_DATA == <<100, 97, 116, 97>>

\* serialize_message(msg_type, data) when get_timestamp() returns ts
SerializeMessage(msg_type, ts, data) ==
    JsonDumps(JO(<<[k |-> KEY_TYPE, v |-> JS(msg_type)],
                   [k |-> KEY_TIMESTAMP, v |-> JS(ts)],
                   [k |-> KEY_DATA, v |-> data]>>))

\* deserialize_message(payload)
DeserializeMessage(payload) == JsonLoads(payload)

COMPRESS_THRESHOLD == 1024

\* the test `compress and len(payload) > 1024` of pack
ShouldCompressAlways(compress, payload) == TRUE

ShouldCompress(compress, payload) == compress /\ Len(payload) > COMPRESS_THRESHOLD

\* Protocol.pack(msg_type, data, compress) when get_timestamp() returns ts
Pack(msg_type, data, compress, ts) ==
    LET payload == SerializeMessage(msg_type, ts, data)
    IN  IF ShouldCompress(compress, payload)
        THEN LET z == ZlibCompress(payload)
             IN  PackHeader(Len(z), 1) \o z
        ELSE PackHeader(Len(payload), 0) \o payload

NoMessage == [ok |-> FALSE, v |-> JN(0)]

\* the flag test `if compressed:` of unpack
IsCompressedNever(flag) == FALSE

IsCompressed(flag) == flag # 0

\* the test `len(payload) != length` of unpack
PayloadIncompleteNever(payload, length) == FALSE

PayloadIncomplete(payload, length) == Len(payload) # length

\* Protocol.unpack(data): ok = FALSE stands for None
Unpack(data) ==
    IF Len(data) < HEADER_SIZE THEN NoMessage
    ELSE IF SubSeq(data, 1, 4) # MAGIC THEN NoMessage
    ELSE LET length == UnpackU32(SubSeq(data, 7, 10))
             compressed == data[11]
             payload == SubSeq(data, HEADER_SIZE + 1, Min(HEADER_SIZE + length, Len(data)))
         IN  IF PayloadIncomplete(payload, length) THEN NoMessage
             ELSE IF IsCompressed(compressed)
             THEN LET d == ZlibDecompress(payload)
                  IN  IF d.ok THEN DeserializeMessage(d.v) ELSE NoMessage
             ELSE DeserializeMessage(payload)

-----------------------------------------------------------------------------
(* The messages packed *)

CharStr(ch, n) == [i \in 1..n |-> ch]

\* MessageType.PING, MessageType.STUDENT_CONNECT
PING == <<80, 73, 78, 71>>
STUDENT_CONNECT == <<83, 84, 85, 68, 69, 78, 84, 95, 67, 79, 78, 78, 69, 67, 84>>
MsgTypes == {PING, STUDENT_CONNECT}

\* a return value of get_timestamp(): "2026-11-02 08:00:00"
Timestamps == {<<50, 48, 50, 54, 45, 49, 49, 45, 48, 50, 32, 48, 56, 58, 48, 48, 58, 48, 48>>}

KEY_K == <<107>>
KEY_N == <<110>>
KEY_SUB == <<115, 117, 98>>

\* with msg_type PING and these string lengths under key "k", the serialized
\* message is 1024, 1025 and 1115 bytes long
LongLens == {953, 954, 1044}

\* dicts of strings (plain, with quotes and backslashes, long), numbers and
\* a nested dict
DataValues ==
    {JO(<<>>)}
    \cup {JO(<<[k |-> KEY_K, v |-> JS(str)]>>) :
            str \in {<<>>, <<120>>, <<QUOTE>>, <<BACKSLASH>>, <<BACKSLASH, QUOTE>>,
                     <<120, BACKSLASH, BACKSLASH, QUOTE, 32, 125>>}}
    \cup {JO(<<[k |-> KEY_K, v |-> JS(CharStr(120, n))]>>) : n \in LongLens}
    \cup {JO(<<[k |-> KEY_K, v |-> JS(CharStr(BACKSLASH, 600))]>>)}
    \cup {JO(<<[k |-> KEY_N, v |-> JN(num)], [k |-> KEY_K, v |-> JS(<<120, 44>>)]>>) :
            num \in {0, 7, 1024}}
    \cup {JO(<<[k |-> KEY_SUB, v |-> JO(<<[k |-> KEY_K, v |-> JS(<<58>>)]>>)],
               [k |-> KEY_N, v |-> JN(42)]>>)}

DiscIdle ==
    /\ available_teachers = <<>>
    /\ teacherFound = <<>>
    /\ heard = {}
    /\ nheard = 0

RxIdle ==
    /\ last_frame = None
    /\ last_frame_number = -1
    /\ frames_received_multicast = 0
    /\ accepted = <<>>
    /\ nrx = 0

McIdle ==
    /\ mrunning = FALSE
    /\ msock = "none"
    /\ mgroup = {}
    /\ mwire = <<>>
    /\ packets_sent = 0
    /\ mpc = <<>>
    /\ mret = <<>>
    /\ mclosed = FALSE
    /\ nsend = 0

DgramIdle == DiscIdle /\ RxIdle /\ McIdle

CliIdle ==
    /\ cpc = "off"
    /\ cconnected = FALSE
    /\ csock = "none"
    /\ casm = FALSE
    /\ cwire = <<>>
    /\ srvOpen = FALSE
    /\ nsent = 0
    /\ expected = <<>>
    /\ delivered = <<>>
    /\ rpc = "off"
    /\ hbpc = "off"
    /\ hbFailed = FALSE
    /\ dpc = <<>>
    /\ closes = 0
    /\ cdisc = 0

ReIdle ==
    /\ kconnected = FALSE
    /\ ksock = 0
    /\ kopen = {}
    /\ kgen = 0
    /\ kacc = 0
    /\ kcpc = "off"
    /\ kdpc = <<>>
    /\ krpc = <<>>
    /\ krsock = <<>>
    /\ khpc = <<>>
    /\ kpings = {}
    /\ kdisc = 0

ApiIdle ==
    /\ hlast = <<>>
    /\ msgFired = {}
    /\ bpc = "off"
    /\ bexclude = {}
    /\ bmsg = "none"
    /\ bregistered = <<>>
    /\ bsnap = {}
    /\ btodo = {}
    /\ battempt = <<>>
    /\ bwrote = <<>>
    /\ qpc = "off"
    /\ qid = 0
    /\ qenc = FALSE
    /\ qh = 0
    /\ qret = "none"
    /\ qwrote = "none"
    /\ qcounted = FALSE
    /\ ncalls = 0
    /\ stoppc = "off"
    /\ students_lock = 0
    /\ incb = <<>>

SrvIdle ==
    /\ hpc = <<>>
    /\ hconn = <<>>
    /\ hmid = <<>>
    /\ hsid = <<>>
    /\ hstud = <<>>
    /\ students = <<>>
    /\ client_handlers = <<>>
    /\ now = 0
    /\ spc = "off"
    /\ to_remove = {}
    /\ scur = 0
    /\ connFired = <<>>
    /\ discFired = <<>>
    /\ sweepFired = {}
    /\ ownFired = {}
    /\ hreq = <<>>
    /\ hreply = <<>>
    /\ hfirst = <<>>
    /\ srunning = FALSE

SendIdle ==
    /\ ekind = "off"
    /\ econnected = FALSE
    /\ sockClosed = FALSE
    /\ lockHolder = 0
    /\ tpc = <<>>
    /\ tsent = <<>>
    /\ tret = <<>>
    /\ wire = <<>>

ProtoIdle ==
    /\ m_type = <<>>
    /\ m_data = JO(<<>>)
    /\ m_compress = FALSE
    /\ m_ts = <<>>
    /\ ppc = "off"
    /\ packed = <<>>
    /\ unpacked = NoMessage

ProtoInit ==
    /\ m_type \in MsgTypes
    /\ m_data \in DataValues
    /\ m_compress \in BOOLEAN
    /\ m_ts \in Timestamps
    /\ ppc = "ready"
    /\ packed = <<>>
    /\ unpacked = NoMessage

\* packed = Protocol.pack(msg_type, data, compress)
DoPack ==
    /\ ppc = "ready"
    /\ packed' = Pack(m_type, m_data, m_compress, m_ts)
    /\ ppc' = "packed"
    /\ UNCHANGED <<m_type, m_data, m_compress, m_ts, unpacked>>

\* unpacked = Protocol.unpack(packed)
DoUnpack ==
    /\ ppc = "packed"
    /\ unpacked' = Unpack(packed)
    /\ ppc' = "unpacked"
    /\ UNCHANGED <<m_type, m_data, m_compress, m_ts, packed>>

-----------------------------------------------------------------------------
(* The streams fed to the assembler *)

\* a frame as the peer's Protocol.pack builds it: header + payload
MkFrame(payload, flag) == PackHeader(Len(payload), flag) \o payload

FrameKinds == {"F0", "FM"}
GarbageKinds == {"X2", "X9"}
ForgedKinds == {"BOGUS", "OVER"}
Kinds == FrameKinds \cup GarbageKinds \cup ForgedKinds

SegBytes(k) ==
    CASE k = "F0"    -> MkFrame(<<>>, 0)                  \* empty payload
      [] k = "FM"    -> MkFrame(MAGIC, 0)                 \* payload holds the magic
      [] k = "X2"    -> <<65, 70>>                        \* looks like the magic's start
      [] k = "X9"    -> <<120, 121, 120, 121, 120, 121, 120, 121, 120>>
      [] k = "BOGUS" -> PackHeader(4, 0)                  \* header without payload
      [] k = "OVER"  -> PackHeader(MaxPacketSize - HEADER_SIZE + 1, 0)
                                                          \* declares one byte too many

SegSeqs == UNION {[1..n -> Kinds] : n \in 1..MaxSegs}

StreamOf(ks) == Concat([i \in 1..Len(ks) |-> SegBytes(ks[i])])

\* offset in the stream at which segment i starts / ends
SegStart(ks, i) == Len(StreamOf(SubSeq(ks, 1, i - 1)))
SegEnd(ks, i) == Len(StreamOf(SubSeq(ks, 1, i)))

-----------------------------------------------------------------------------
(* TCPPacketAssembler *)

\* self.buffer.find(Protocol.MAGIC)
FindMagic(buf) ==
    LET hits == {i \in 0..(Len(buf) - 4) : SubSeq(buf, i + 1, i + 4) = MAGIC}
    IN  IF hits = {} THEN -1 ELSE CHOOSE i \in hits : \A j \in hits : i <= j

\* what is kept when the magic is not found: self.buffer[-3:]
KeepTailNone(buf) == <<>>

KeepTail(buf) == IF Len(buf) > 3 THEN LastN(buf, 3) ELSE buf

\* the oversize test of feed(): packet_length > self.max_packet_size
TooLargeNever(packet_length) == FALSE

TooLarge(packet_length) == packet_length > MaxPacketSize

\* self.buffer = self.buffer[1:]  (a header that is skipped)
SkipNone(buf) == buf

SkipOne(buf) == Drop(buf, 1)

\* One iteration of `while len(self.buffer) >= Protocol.HEADER_SIZE` on buffer
\* buf: the new buffer, the packet appended (if any), the increment of
\* sync_recoveries, and whether the iteration left the loop.
Iteration(buf) ==
    IF Len(buf) < HEADER_SIZE
    THEN [buf |-> buf, emit |-> <<>>, rec |-> 0, stop |-> TRUE]
    ELSE IF Take(buf, 4) # MAGIC
    THEN LET sync_pos == FindMagic(buf)
         IN  IF sync_pos = -1
             THEN [buf |-> KeepTail(buf), emit |-> <<>>, rec |-> 0, stop |-> TRUE]
             ELSE [buf |-> Drop(buf, sync_pos), emit |-> <<>>, rec |-> 1,
                   stop |-> FALSE]
    ELSE LET packet_length == GetPacketLength(Take(buf, HEADER_SIZE))
         IN  IF packet_length = None
             THEN [buf |-> SkipOne(buf), emit |-> <<>>, rec |-> 0, stop |-> FALSE]
             ELSE IF TooLarge(packet_length)
             THEN [buf |-> SkipOne(buf), emit |-> <<>>, rec |-> 0, stop |-> FALSE]
             ELSE IF Len(buf) < packet_length
             THEN [buf |-> buf, emit |-> <<>>, rec |-> 0, stop |-> TRUE]
             ELSE [buf |-> Drop(buf, packet_length),
                   emit |-> <<Take(buf, packet_length)>>, rec |-> 0, stop |-> FALSE]

AsmInit ==
    /\ segs \in SegSeqs
    /\ stream = StreamOf(segs)
    /\ pos = 0
    /\ buffer = <<>>
    /\ sync_recoveries = 0
    /\ packets_assembled = 0
    /\ bytes_processed = 0
    /\ apc = "idle"
    /\ packets = <<>>
    /\ startLen = 0
    /\ iters = 0
    /\ calls = 0
    /\ out = <<>>

\* self._stats['bytes_processed'] += len(data)
ProcessedCalls(data) == 1

ProcessedBytes(data) == Len(data)

\* feed(b''): `if not data: return []`
FeedEmpty ==
    /\ apc = "idle"
    /\ calls' = Min(calls + 1, CallsCap)
    /\ UNCHANGED <<segs, stream, pos, buffer, sync_recoveries, packets_assembled,
                   bytes_processed, apc, packets, startLen, iters, out>>

\* feed(data) up to the loop: data is the next n bytes of the stream (n > 0)
FeedCall ==
    /\ apc = "idle"
    /\ \E n \in 1..(Len(stream) - pos) :
         /\ buffer' = buffer \o SubSeq(stream, pos + 1, pos + n)
         /\ bytes_processed' =
                bytes_processed + ProcessedBytes(SubSeq(stream, pos + 1, pos + n))
         /\ pos' = pos + n
         /\ startLen' = Len(buffer) + n
    /\ packets' = <<>>
    /\ iters' = 0
    /\ calls' = Min(calls + 1, CallsCap)
    /\ apc' = "loop"
    /\ UNCHANGED <<segs, stream, sync_recoveries, packets_assembled, out>>

\* one evaluation of the loop condition and, if it holds, of the loop body;
\* when the loop is left, feed() returns `packets`
FeedIter ==
    /\ apc = "loop"
    /\ LET r == Iteration(buffer)
           start == pos - Len(buffer)
           pk == [i \in 1..Len(r.emit) |->
                    [frame |-> r.emit[i], start |-> start]]
       IN  /\ buffer' = r.buf
           /\ sync_recoveries' = sync_recoveries + r.rec
           /\ packets_assembled' = packets_assembled + Len(r.emit)
           /\ packets' = IF r.stop THEN <<>> ELSE packets \o pk
           /\ iters' = IF r.stop THEN 0 ELSE iters + 1
           /\ startLen' = IF r.stop THEN 0 ELSE startLen
           /\ apc' = IF r.stop THEN "idle" ELSE "loop"
           /\ out' = IF r.stop THEN out \o packets ELSE out
    /\ UNCHANGED <<segs, stream, pos, bytes_processed, calls>>

AsmNext ==
    \/ FeedEmpty /\ UNCHANGED <<protoVars, sendVars, srvVars, cliVars, dgramVars, apiVars, reVars>>
    \/ FeedCall /\ UNCHANGED <<protoVars, sendVars, srvVars, cliVars, dgramVars, apiVars, reVars>>
    \/ FeedIter /\ UNCHANGED <<protoVars, sendVars, srvVars, cliVars, dgramVars, apiVars, reVars>>

InitAsm == AsmInit /\ ProtoIdle /\ SendIdle /\ SrvIdle /\ CliIdle /\ DgramIdle
           /\ ApiIdle /\ ReIdle
SpecAsm == InitAsm /\ [][AsmNext]_vars

-----------------------------------------------------------------------------
(* TCPPacketAssembler() with the default max_packet_size, fed one byte     *)
(* string in a single call                                                  *)

\* one iteration of the loop of feed() when self.max_packet_size is
\* Protocol.MAX_PACKET_SIZE
DefaultIteration(buf) ==
    IF Len(buf) < HEADER_SIZE
    THEN [buf |-> buf, emit |-> <<>>, stop |-> TRUE]
    ELSE IF Take(buf, 4) # MAGIC
    THEN LET sync_pos == FindMagic(buf)
         IN  IF sync_pos = -1
             THEN [buf |-> KeepTail(buf), emit |-> <<>>, stop |-> TRUE]
             ELSE [buf |-> Drop(buf, sync_pos), emit |-> <<>>, stop |-> FALSE]
    ELSE LET packet_length == GetPacketLength(Take(buf, HEADER_SIZE))
         IN  IF packet_length = None
             THEN [buf |-> SkipOne(buf), emit |-> <<>>, stop |-> FALSE]
             ELSE IF packet_length > MAX_PACKET_SIZE
             THEN [buf |-> SkipOne(buf), emit |-> <<>>, stop |-> FALSE]
             ELSE IF Len(buf) < packet_length
             THEN [buf |-> buf, emit |-> <<>>, stop |-> TRUE]
             ELSE [buf |-> Drop(buf, packet_length),
                   emit |-> <<Take(buf, packet_length)>>, stop |-> FALSE]

\* the loop of feed(): the packets collected when the loop is left
RECURSIVE FeedLoop(_, _)
FeedLoop(buf, pkts) ==
    LET r == DefaultIteration(buf)
    IN  IF r.stop THEN pkts ELSE FeedLoop(r.buf, pkts \o r.emit)

\* TCPPacketAssembler().feed(data)
FeedFresh(data) == IF data = <<>> THEN <<>> ELSE FeedLoop(data, <<>>)


-----------------------------------------------------------------------------
(* One pack / unpack round, with the assembler left alone *)

AsmIdle ==
    /\ segs = <<>>
    /\ stream = <<>>
    /\ pos = 0
    /\ buffer = <<>>
    /\ sync_recoveries = 0
    /\ packets_assembled = 0
    /\ bytes_processed = 0
    /\ apc = "off"
    /\ packets = <<>>
    /\ startLen = 0
    /\ iters = 0
    /\ calls = 0
    /\ out = <<>>

ProtoNext ==
    \/ DoPack /\ UNCHANGED <<asmVars, sendVars, srvVars, cliVars, dgramVars, apiVars, reVars>>
    \/ DoUnpack /\ UNCHANGED <<asmVars, sendVars, srvVars, cliVars, dgramVars, apiVars, reVars>>

InitProto == ProtoInit /\ AsmIdle /\ SendIdle /\ SrvIdle /\ CliIdle /\ DgramIdle
             /\ ApiIdle /\ ReIdle
SpecProto == InitProto /\ [][ProtoNext]_vars

-----------------------------------------------------------------------------
(* Protocol.unpack on data that is not a frame produced by pack: a packed   *)
(* frame is damaged before it is unpacked.                                  *)

DamageKinds == {"empty", "cut5", "cut10", "header", "cutLast", "magic1",
                "magic4", "longer", "flag", "extra"}

\* the frame with its declared payload length replaced
WithLength(frame, length) ==
    SubSeq(frame, 1, 6) \o PackU32(length) \o SubSeq(frame, 11, Len(frame))

Damaged(frame, kind) ==
    CASE kind = "empty"   -> <<>>
      [] kind = "cut5"    -> Take(frame, 5)
      [] kind = "cut10"   -> Take(frame, HEADER_SIZE - 1)
      [] kind = "header"  -> Take(frame, HEADER_SIZE)
      [] kind = "cutLast" -> Take(frame, Len(frame) - 1)
      [] kind = "magic1"  -> <<66>> \o Drop(frame, 1)
      [] kind = "magic4"  -> Take(frame, 3) \o <<100>> \o Drop(frame, 4)
      [] kind = "longer"  -> WithLength(frame, Len(frame) - HEADER_SIZE + 1)
      [] kind = "flag"    -> Take(frame, HEADER_SIZE - 1) \o <<1 - frame[HEADER_SIZE]>>
                             \o Drop(frame, HEADER_SIZE)
      [] kind = "extra"   -> frame \o <<0>>

\* the peer's frame arrives damaged
Damage(kind) ==
    /\ ppc = "packed"
    /\ packed' = Damaged(packed, kind)
    /\ ppc' = "damaged"
    /\ UNCHANGED <<m_type, m_data, m_compress, m_ts, unpacked>>

\* unpacked = Protocol.unpack(packed) on the damaged data
DoUnpackDamaged ==
    /\ ppc = "damaged"
    /\ unpacked' = Unpack(packed)
    /\ ppc' = "checked"
    /\ UNCHANGED <<m_type, m_data, m_compress, m_ts, packed>>

UnpackNext ==
    \/ DoPack /\ UNCHANGED <<asmVars, sendVars, srvVars, cliVars, dgramVars, apiVars, reVars>>
    \/ \E kind \in DamageKinds : Damage(kind) /\ UNCHANGED <<asmVars, sendVars, srvVars, cliVars, dgramVars, apiVars, reVars>>
    \/ DoUnpackDamaged /\ UNCHANGED <<asmVars, sendVars, srvVars, cliVars, dgramVars, apiVars, reVars>>

InitUnpack == ProtoInit /\ AsmIdle /\ SendIdle /\ SrvIdle /\ CliIdle /\ DgramIdle
              /\ ApiIdle /\ ReIdle
SpecUnpack == InitUnpack /\ [][UnpackNext]_vars

-----------------------------------------------------------------------------
(* ClientHandler.send_packet and StudentClient._send_raw: several threads   *)
(* send one frame each to the same endpoint.                                *)

Senders == 1..NSenders

\* the frame thread t sends: a packed message whose payload names t
FrameOf(t) == MkFrame(<<t>>, 0)

SendInit ==
    /\ ekind \in {"server", "client"}
    /\ econnected = TRUE
    /\ sockClosed = FALSE
    /\ lockHolder = 0
    /\ tpc = [t \in Senders |-> "idle"]
    /\ tsent = [t \in Senders |-> 0]
    /\ tret = [t \in Senders |-> "none"]
    /\ wire = <<>>

\* threading.Lock: `with self._send_lock` may be entered
LockIgnored == TRUE

LockFree == lockHolder = 0

\* send_packet: `if not self.connected: return False`
\* _send_raw: `if not self.tcp_socket: return False` (the socket is set)
SendEnter(t) ==
    /\ tpc[t] = "idle"
    /\ IF ekind = "server" /\ ~econnected
       THEN /\ tpc' = [tpc EXCEPT ![t] = "done"]
            /\ tret' = [tret EXCEPT ![t] = "false"]
       ELSE /\ tpc' = [tpc EXCEPT ![t] = "wait"]
            /\ tret' = tret
    /\ UNCHANGED <<ekind, econnected, sockClosed, lockHolder, tsent, wire>>

\* with self._send_lock: total_sent = 0
SendAcquire(t) ==
    /\ tpc[t] = "wait"
    /\ LockFree
    /\ lockHolder' = t
    /\ tsent' = [tsent EXCEPT ![t] = 0]
    /\ tpc' = [tpc EXCEPT ![t] = "sending"]
    /\ UNCHANGED <<ekind, econnected, sockClosed, tret, wire>>

\* one socket.send(packet[total_sent:]) that accepts n > 0 bytes; after the
\* last byte the loop ends, the lock is released and True is returned
SendWrite(t) ==
    /\ tpc[t] = "sending"
    /\ ~sockClosed
    /\ \E n \in 1..(Len(FrameOf(t)) - tsent[t]) :
         /\ wire' = wire \o [j \in 1..n |->
                               [f |-> t, i |-> tsent[t] + j,
                                b |-> FrameOf(t)[tsent[t] + j]]]
         /\ tsent' = [tsent EXCEPT ![t] = tsent[t] + n]
         /\ IF tsent[t] + n = Len(FrameOf(t))
            THEN /\ tpc' = [tpc EXCEPT ![t] = "done"]
                 /\ tret' = [tret EXCEPT ![t] = "true"]
                 /\ lockHolder' = IF lockHolder = t THEN 0 ELSE lockHolder
            ELSE UNCHANGED <<tpc, tret, lockHolder>>
    /\ UNCHANGED <<ekind, econnected, sockClosed>>

\* the connected flag after a failed write: ClientHandler.send_packet sets
\* self.connected = False, StudentClient._send_raw has no such flag to set
AfterFailureUnmarked(kind, conn) == conn

AfterFailure(kind, conn) == IF kind = "server" THEN FALSE ELSE conn

\* socket.send returns 0 or raises: the lock is released and False returned;
\* ClientHandler also sets connected = False
SendFail(t) ==
    /\ tpc[t] = "sending"
    /\ tpc' = [tpc EXCEPT ![t] = "done"]
    /\ tret' = [tret EXCEPT ![t] = "false"]
    /\ lockHolder' = IF lockHolder = t THEN 0 ELSE lockHolder
    /\ econnected' = AfterFailure(ekind, econnected)
    /\ UNCHANGED <<ekind, sockClosed, tsent, wire>>

\* ClientHandler.close() / StudentClient.disconnect() by another thread
EndpointClose ==
    /\ ~sockClosed
    /\ sockClosed' = TRUE
    /\ econnected' = FALSE
    /\ UNCHANGED <<ekind, lockHolder, tpc, tsent, tret, wire>>

SendNext ==
    \/ \E t \in Senders : SendEnter(t) /\ UNCHANGED <<asmVars, protoVars, srvVars, cliVars, dgramVars, apiVars, reVars>>
    \/ \E t \in Senders : SendAcquire(t) /\ UNCHANGED <<asmVars, protoVars, srvVars, cliVars, dgramVars, apiVars, reVars>>
    \/ \E t \in Senders : SendWrite(t) /\ UNCHANGED <<asmVars, protoVars, srvVars, cliVars, dgramVars, apiVars, reVars>>
    \/ \E t \in Senders : SendFail(t) /\ UNCHANGED <<asmVars, protoVars, srvVars, cliVars, dgramVars, apiVars, reVars>>
    \/ EndpointClose /\ UNCHANGED <<asmVars, protoVars, srvVars, cliVars, dgramVars, apiVars, reVars>>

InitSend == SendInit /\ AsmIdle /\ ProtoIdle /\ SrvIdle /\ CliIdle /\ DgramIdle
            /\ ApiIdle /\ ReIdle
SpecSend == InitSend /\ [][SendNext]_vars

-----------------------------------------------------------------------------
(* TeacherServer: _handle_client threads, _register_student,                *)
(* _unregister_student and the _check_heartbeats sweep. A block executed    *)
(* under `with self._students_lock` is one step.                            *)

CONNECTION_TIMEOUT == 15

Conns == 1..NConn

Ids == 1..NIds

\* `student_id in self.students` is false
NoRec == [reg |-> 0, last_seen |-> 0]

SrvInit ==
    /\ hpc = [h \in Conns |-> "none"]
    /\ hconn = [h \in Conns |-> FALSE]
    /\ hmid = [h \in Conns |-> 0]
    /\ hsid = [h \in Conns |-> 0]
    /\ hstud = [h \in Conns |-> 0]
    /\ students = [id \in Ids |-> NoRec]
    /\ client_handlers = [id \in Ids |-> 0]
    /\ now = 1
    /\ spc = "sleep"
    /\ to_remove = {}
    /\ scur = 0
    /\ connFired = [id \in Ids |-> 0]
    /\ discFired = [id \in Ids |-> 0]
    /\ sweepFired = {}
    /\ ownFired = {}
    /\ hreq = [h \in Conns |-> "none"]
    /\ hreply = [h \in Conns |-> "none"]
    /\ hfirst = [h \in Conns |-> "none"]
    /\ srunning = TRUE

\* ClientHandler.close(), applied to the connected flags
CloseHandler(conn, h) == IF h = 0 THEN conn ELSE [conn EXCEPT ![h] = FALSE]

\* the first lock block of _register_student: the handler to close
OldHandler(h) ==
    IF students[hmid[h]] # NoRec THEN client_handlers[hmid[h]] ELSE 0

\* the first frame written to a connection, after `frame` is written to it
FirstWritten(h, frame) ==
    IF hfirst[h] = "none" THEN [hfirst EXCEPT ![h] = frame] ELSE hfirst

\* _accept_connections: a connection is accepted and its thread started with
\* handler = ClientHandler(...), student_id = None
Accept(h, id) ==
    /\ hpc[h] = "none"
    /\ hpc' = [hpc EXCEPT ![h] = "recv"]
    /\ hconn' = [hconn EXCEPT ![h] = TRUE]
    /\ hmid' = [hmid EXCEPT ![h] = id]
    /\ UNCHANGED <<hsid, hstud, students, client_handlers, now, spc,
                   to_remove, scur, connFired, discFired, sweepFired, ownFired, hreq, hreply,
                   hfirst, srunning>>

\* shapes of the data of a STUDENT_CONNECT request: with name and machine
\* identifier, without the name, without the machine identifier (the identity
\* is then built from the empty string and the address), not a dict
ReqKinds == {"full", "noName", "noMid", "notMap"}

\* _register_student: data.get("student_name", "Unknown") and
\* data.get("machine_id", "") succeed (a missing key yields the default)
RequestReadable(req) == req # "notMap"

\* the loop receives STUDENT_CONNECT and calls _register_student(data, ...)
RecvConnect(h, req) ==
    /\ hpc[h] = "recv"
    /\ hconn[h]
    /\ hsid[h] = 0
    /\ hreq' = [hreq EXCEPT ![h] = req]
    /\ hpc' = [hpc EXCEPT ![h] = "r1"]
    /\ UNCHANGED <<hconn, hmid, hsid, hstud, students, client_handlers, now,
                   spc, to_remove, scur, connFired, discFired, sweepFired,
                   ownFired, hreply,
                   hfirst, srunning>>

\* _register_student: the data is read and, in the first lock block, the old
\* connection is closed; when data.get raises, _register_student returns None
\* and _handle_client closes the handler and returns (student_id is None:
\* nothing is unregistered)
RegCheck(h) ==
    /\ hpc[h] = "r1"
    /\ IF RequestReadable(hreq[h])
       THEN /\ hconn' = CloseHandler(hconn, OldHandler(h))
            /\ hpc' = [hpc EXCEPT ![h] = "r2"]
            /\ hreq' = hreq
       ELSE /\ hconn' = CloseHandler(hconn, h)
            /\ hpc' = [hpc EXCEPT ![h] = "dead"]
            /\ hreq' = [hreq EXCEPT ![h] = "none"]
    /\ UNCHANGED <<hmid, hsid, hstud, students, client_handlers, now, spc,
                   to_remove, scur, connFired, discFired, sweepFired, ownFired,
                   hreply,
                   hfirst, srunning>>

\* _register_student, second lock block: store the record and the handler;
\* then handler.student_id = student_id
RegStore(h) ==
    /\ hpc[h] = "r2"
    /\ students' = [students EXCEPT ![hmid[h]] = [reg |-> h, last_seen |-> now]]
    /\ client_handlers' = [client_handlers EXCEPT ![hmid[h]] = h]
    /\ hstud' = [hstud EXCEPT ![h] = hmid[h]]
    /\ hpc' = [hpc EXCEPT ![h] = "rsend"]
    /\ UNCHANGED <<hconn, hmid, hsid, now, spc, to_remove, scur, connFired,
                   discFired, sweepFired, ownFired, hreq, hreply,
                   hfirst, srunning>>

\* _register_student: handler.send_packet(connection_accepted); when it
\* returns False, _register_student returns None, the local student_id
\* becomes None and _handle_client closes the handler and returns through
\* finally without unregistering
RegSend(h, ok) ==
    /\ hpc[h] = "rsend"
    /\ ok => hconn[h]
    /\ IF ok
       THEN /\ hpc' = [hpc EXCEPT ![h] = "rcb"]
            /\ hconn' = hconn
            /\ hreply' = [hreply EXCEPT ![h] = "CONNECTION_ACCEPTED"]
            /\ hfirst' = FirstWritten(h, "CONNECTION_ACCEPTED")
            /\ hreq' = hreq
       ELSE /\ hpc' = [hpc EXCEPT ![h] = "dead"]
            /\ hconn' = CloseHandler(hconn, h)
            /\ hreply' = hreply
            /\ hfirst' = hfirst
            /\ hreq' = [hreq EXCEPT ![h] = "none"]
    /\ UNCHANGED <<hmid, hsid, hstud, students, client_handlers, now, spc,
                   to_remove, scur, connFired, discFired, sweepFired, ownFired, srunning>>

\* _register_student: on_student_connected(student); return student_id
RegCallback(h) ==
    /\ hpc[h] = "rcb"
    /\ connFired' = [connFired EXCEPT ![hmid[h]] = connFired[hmid[h]] + 1]
    /\ hsid' = [hsid EXCEPT ![h] = hmid[h]]
    /\ hpc' = [hpc EXCEPT ![h] = "recv"]
    /\ hreq' = [hreq EXCEPT ![h] = "none"]
    /\ UNCHANGED <<hconn, hmid, hstud, students, client_handlers, now, spc,
                   to_remove, scur, discFired, sweepFired, ownFired, hreply,
                   hfirst, srunning>>

\* the loop receives PING and the local student_id is set: under the lock,
\* last_seen is set if the identity is in self.students
RecvPing(h) ==
    /\ hpc[h] = "recv"
    /\ hconn[h]
    /\ hsid[h] # 0
    /\ students' = IF students[hsid[h]] # NoRec
                   THEN [students EXCEPT ![hsid[h]].last_seen = now]
                   ELSE students
    /\ hpc' = [hpc EXCEPT ![h] = "pong"]
    /\ UNCHANGED <<hconn, hmid, hsid, hstud, client_handlers, now, spc,
                   to_remove, scur, connFired, discFired, sweepFired, ownFired,
                   hreq, hreply,
                   hfirst, srunning>>

\* after the lock block: handler.send_packet(MessageBuilder.pong()); it
\* writes nothing when the handler is no longer connected, and a failed write
\* marks the handler disconnected (ok: the frame was written)
SendPong(h, ok) ==
    /\ hpc[h] = "pong"
    /\ ok => hconn[h]
    /\ hreply' = IF ok THEN [hreply EXCEPT ![h] = "PONG"] ELSE hreply
    /\ hfirst' = IF ok THEN FirstWritten(h, "PONG") ELSE hfirst
    /\ hconn' = IF ok THEN hconn ELSE CloseHandler(hconn, h)
    /\ hpc' = [hpc EXCEPT ![h] = "recv"]
    /\ UNCHANGED <<hmid, hsid, hstud, students, client_handlers, now, spc,
                   to_remove, scur, connFired, discFired, sweepFired, ownFired,
                   hreq, srunning>>

\* receive_packets: recv returns b'' or raises; connected = False
RecvEof(h) ==
    /\ hpc[h] = "recv"
    /\ hconn[h]
    /\ hconn' = [hconn EXCEPT ![h] = FALSE]
    /\ UNCHANGED <<hpc, hmid, hsid, hstud, students, client_handlers, now, spc,
                   to_remove, scur, connFired, discFired, sweepFired, ownFired, hreq, hreply,
                   hfirst, srunning>>

\* `while self.running and handler.connected` ends: finally is entered
LoopExit(h) ==
    /\ hpc[h] = "recv"
    /\ ~srunning \/ ~hconn[h]
    /\ hpc' = [hpc EXCEPT ![h] = "fin"]
    /\ UNCHANGED <<hconn, hmid, hsid, hstud, students, client_handlers, now,
                   spc, to_remove, scur, connFired, discFired, sweepFired,
                   ownFired, hreq, hreply,
                   hfirst, srunning>>

\* _unregister_student(id): the registry after the call
UnregStudents(id) ==
    IF id # 0 /\ students[id] # NoRec
    THEN [students EXCEPT ![id] = NoRec]
    ELSE students

UnregHandlers(id) ==
    IF id # 0 /\ students[id] # NoRec
    THEN [client_handlers EXCEPT ![id] = 0]
    ELSE client_handlers

\* _unregister_student(id): on_student_disconnected after the call
UnregFired(id) ==
    IF id # 0 /\ students[id] # NoRec
    THEN [discFired EXCEPT ![id] = discFired[id] + 1]
    ELSE discFired

\* finally of _handle_client: `if student_id: self._unregister_student(...)`
Cleanup(h) ==
    /\ hpc[h] = "fin"
    /\ students' = UnregStudents(hsid[h])
    /\ client_handlers' = UnregHandlers(hsid[h])
    /\ discFired' = UnregFired(hsid[h])
    /\ ownFired' = IF hsid[h] # 0 /\ students[hsid[h]] # NoRec
                   THEN ownFired \cup {h} ELSE ownFired
    /\ hpc' = [hpc EXCEPT ![h] = "close"]
    /\ UNCHANGED <<hconn, hmid, hsid, hstud, now, spc, to_remove, scur,
                   connFired, sweepFired, hreq, hreply,
                   hfirst, srunning>>

\* finally of _handle_client: handler.close()
Close(h) ==
    /\ hpc[h] = "close"
    /\ hconn' = CloseHandler(hconn, h)
    /\ hpc' = [hpc EXCEPT ![h] = "dead"]
    /\ UNCHANGED <<hmid, hsid, hstud, students, client_handlers, now, spc,
                   to_remove, scur, connFired, discFired, sweepFired, ownFired, hreq, hreply,
                   hfirst, srunning>>

\* _check_heartbeats: `time_diff > CONNECTION_TIMEOUT` for a record
Stale(id) ==
    /\ students[id] # NoRec
    /\ students[id].last_seen # 0
    /\ now - students[id].last_seen > CONNECTION_TIMEOUT

\* _check_heartbeats: the scan under the lock fills students_to_remove
SweepScan ==
    /\ spc = "sleep"
    /\ \E id \in Ids : Stale(id)
    /\ to_remove' = {id \in Ids : Stale(id)}
    /\ spc' = "loop"
    /\ UNCHANGED <<hpc, hconn, hmid, hsid, hstud, students, client_handlers,
                   now, scur, connFired, discFired, sweepFired, ownFired, hreq, hreply,
                   hfirst, srunning>>

\* _check_heartbeats: handler = self.client_handlers.get(student_id);
\* if handler: handler.close()
SweepClose(id) ==
    /\ spc = "loop"
    /\ id \in to_remove
    /\ scur' = id
    /\ hconn' = CloseHandler(hconn, client_handlers[id])
    /\ spc' = "unreg"
    /\ UNCHANGED <<hpc, hmid, hsid, hstud, students, client_handlers, now,
                   to_remove, connFired, discFired, sweepFired, ownFired, hreq, hreply,
                   hfirst, srunning>>

\* _check_heartbeats: self._unregister_student(student_id); after the last
\* one the thread sleeps
SweepUnreg ==
    /\ spc = "unreg"
    /\ students' = UnregStudents(scur)
    /\ client_handlers' = UnregHandlers(scur)
    /\ discFired' = UnregFired(scur)
    /\ sweepFired' = IF students[scur] # NoRec
                     THEN sweepFired \cup {students[scur].reg} ELSE sweepFired
    /\ to_remove' = to_remove \ {scur}
    /\ scur' = 0
    /\ spc' = IF to_remove \ {scur} = {} THEN "sleep" ELSE "loop"
    /\ UNCHANGED <<hpc, hconn, hmid, hsid, hstud, now, connFired, ownFired, hreq, hreply,
                   hfirst, srunning>>

\* time passes
Tick ==
    /\ now + CONNECTION_TIMEOUT <= MaxTime
    /\ now' = now + CONNECTION_TIMEOUT
    /\ UNCHANGED <<hpc, hconn, hmid, hsid, hstud, students, client_handlers,
                   spc, to_remove, scur, connFired, discFired, sweepFired,
                   ownFired, hreq, hreply,
                   hfirst, srunning>>

SrvNext ==
    \/ \E h \in Conns, id \in Ids :
           Accept(h, id) /\ UNCHANGED <<asmVars, protoVars, sendVars, cliVars, dgramVars, apiVars, reVars>>
    \/ \E h \in Conns, req \in ReqKinds :
           RecvConnect(h, req) /\ UNCHANGED <<asmVars, protoVars, sendVars, cliVars, dgramVars, apiVars, reVars>>
    \/ \E h \in Conns : RegCheck(h) /\ UNCHANGED <<asmVars, protoVars, sendVars, cliVars, dgramVars, apiVars, reVars>>
    \/ \E h \in Conns : RegStore(h) /\ UNCHANGED <<asmVars, protoVars, sendVars, cliVars, dgramVars, apiVars, reVars>>
    \/ \E h \in Conns, ok \in BOOLEAN :
           RegSend(h, ok) /\ UNCHANGED <<asmVars, protoVars, sendVars, cliVars, dgramVars, apiVars, reVars>>
    \/ \E h \in Conns : RegCallback(h) /\ UNCHANGED <<asmVars, protoVars, sendVars, cliVars, dgramVars, apiVars, reVars>>
    \/ \E h \in Conns : RecvPing(h) /\ UNCHANGED <<asmVars, protoVars, sendVars, cliVars, dgramVars, apiVars, reVars>>
    \/ \E h \in Conns, ok \in BOOLEAN :
           SendPong(h, ok) /\ UNCHANGED <<asmVars, protoVars, sendVars, cliVars, dgramVars, apiVars, reVars>>
    \/ \E h \in Conns : RecvEof(h) /\ UNCHANGED <<asmVars, protoVars, sendVars, cliVars, dgramVars, apiVars, reVars>>
    \/ \E h \in Conns : LoopExit(h) /\ UNCHANGED <<asmVars, protoVars, sendVars, cliVars, dgramVars, apiVars, reVars>>
    \/ \E h \in Conns : Cleanup(h) /\ UNCHANGED <<asmVars, protoVars, sendVars, cliVars, dgramVars, apiVars, reVars>>
    \/ \E h \in Conns : Close(h) /\ UNCHANGED <<asmVars, protoVars, sendVars, cliVars, dgramVars, apiVars, reVars>>
    \/ SweepScan /\ UNCHANGED <<asmVars, protoVars, sendVars, cliVars, dgramVars, apiVars, reVars>>
    \/ \E id \in Ids : SweepClose(id) /\ UNCHANGED <<asmVars, protoVars, sendVars, cliVars, dgramVars, apiVars, reVars>>
    \/ SweepUnreg /\ UNCHANGED <<asmVars, protoVars, sendVars, cliVars, dgramVars, apiVars, reVars>>
    \/ Tick /\ UNCHANGED <<asmVars, protoVars, sendVars, cliVars, dgramVars, apiVars, reVars>>

InitSrv == SrvInit /\ AsmIdle /\ ProtoIdle /\ SendIdle /\ CliIdle /\ DgramIdle
           /\ ApiIdle /\ ReIdle
SpecSrv == InitSrv /\ [][SrvNext]_vars

-----------------------------------------------------------------------------
(* TeacherServer.send_to_student and TeacherServer.broadcast_to_all, called *)
(* from a thread of the application while connections register, register   *)
(* again and go away.                                                       *)

\* identities the connections of this part can present
ApiIds == 1..(NIds + 1)

rxmVars == <<hlast, msgFired>>

bcVars == <<bpc, bexclude, bmsg, bregistered, bsnap, btodo, battempt, bwrote>>

stsVars == <<qpc, qid, qenc, qh, qret, qwrote, qcounted>>

lockVars == <<stoppc, students_lock, incb>>

\* ClientHandler.send_packet(packet) on connection h, where `nonempty` says
\* len(packet) > 0 and `ok` that the socket takes the bytes: the packet is
\* written to the socket
Written(h, nonempty, ok) == hconn[h] /\ nonempty /\ ok

\* what send_packet returns: False when the handler is not connected; True
\* without a write when the packet is empty (the loop body is not entered);
\* otherwise whether the write succeeded
SendPacketReturns(h, nonempty, ok) == hconn[h] /\ (nonempty => ok)

\* send_packet applied to the connected flags: a failed write clears the flag
SendPacketConn(h, nonempty, ok) ==
    IF hconn[h] /\ nonempty /\ ~ok THEN CloseHandler(hconn, h) ELSE hconn

\* Protocol.pack(msg_type, data): a frame, or b'' when json.dumps raises
Packed(encodable) == IF encodable THEN "frame" ELSE "empty"

ApiInit ==
    /\ hpc = [h \in Conns |-> "none"]
    /\ hconn = [h \in Conns |-> FALSE]
    /\ hmid = [h \in Conns |-> 0]
    /\ hsid = [h \in Conns |-> 0]
    /\ hstud = [h \in Conns |-> 0]
    /\ students = [id \in ApiIds |-> NoRec]
    /\ client_handlers = [id \in ApiIds |-> 0]
    /\ now = 1
    /\ spc = "sleep"
    /\ to_remove = {}
    /\ scur = 0
    /\ connFired = [id \in ApiIds |-> 0]
    /\ discFired = [id \in ApiIds |-> 0]
    /\ sweepFired = {}
    /\ ownFired = {}
    /\ hreq = [h \in Conns |-> "none"]
    /\ hreply = [h \in Conns |-> "none"]
    /\ hfirst = [h \in Conns |-> "none"]
    /\ srunning = TRUE
    /\ hlast = [h \in Conns |-> "none"]
    /\ msgFired = {}
    /\ bpc = "idle"
    /\ bexclude = {}
    /\ bmsg = "none"
    /\ bregistered = <<>>
    /\ bsnap = {}
    /\ btodo = {}
    /\ battempt = [h \in Conns |-> 0]
    /\ bwrote = [h \in Conns |-> 0]
    /\ qpc = "idle"
    /\ qid = 0
    /\ qenc = FALSE
    /\ qh = 0
    /\ qret = "none"
    /\ qwrote = "none"
    /\ qcounted = FALSE
    /\ ncalls = 0
    /\ stoppc = "off"
    /\ students_lock = 0
    /\ incb = <<>>

\* the loop of a registered connection receives another STUDENT_CONNECT and
\* calls _register_student(data, ...) again; of the identities such a request
\* can carry, the ones after its current identity are tried
RecvConnectAgain(h, id) ==
    /\ hpc[h] = "recv"
    /\ hconn[h]
    /\ hsid[h] # 0
    /\ id > hsid[h]
    /\ hmid' = [hmid EXCEPT ![h] = id]
    /\ hreq' = [hreq EXCEPT ![h] = "full"]
    /\ hpc' = [hpc EXCEPT ![h] = "r1"]
    /\ UNCHANGED <<hconn, hsid, hstud, students, client_handlers, now, spc,
                   to_remove, scur, connFired, discFired, sweepFired, ownFired,
                   hreply, hfirst, srunning>>

\* send_to_student(student_id, msg_type, data): the lock block; an identity
\* that is not in client_handlers returns False
StsLookup(id, encodable) ==
    /\ qpc \in {"idle", "done"}
    /\ ncalls < MaxCalls
    /\ ncalls' = ncalls + 1
    /\ qid' = id
    /\ qenc' = encodable
    /\ qwrote' = "none"
    /\ qcounted' = FALSE
    /\ IF client_handlers[id] = 0
       THEN /\ qpc' = "done"
            /\ qret' = "False"
            /\ qh' = 0
       ELSE /\ qpc' = "found"
            /\ qret' = "none"
            /\ qh' = client_handlers[id]
    /\ UNCHANGED <<srvVars, rxmVars, bcVars, lockVars>>

\* send_to_student after the lock block: message = Protocol.pack(...);
\* success = handler.send_packet(message); messages_sent is counted on
\* success; return success
StsSend(ok) ==
    /\ qpc = "found"
    /\ qwrote' = IF Written(qh, qenc, ok) THEN "frame"
                 ELSE IF hconn[qh] /\ ~qenc THEN "empty"
                 ELSE "none"
    /\ hconn' = SendPacketConn(qh, qenc, ok)
    /\ hfirst' = IF Written(qh, qenc, ok) THEN FirstWritten(qh, "MSG") ELSE hfirst
    /\ hreply' = IF Written(qh, qenc, ok) THEN [hreply EXCEPT ![qh] = "MSG"] ELSE hreply
    /\ qret' = IF SendPacketReturns(qh, qenc, ok) THEN "True" ELSE "False"
    /\ qcounted' = SendPacketReturns(qh, qenc, ok)
    /\ qpc' = "done"
    /\ UNCHANGED <<hpc, hmid, hsid, hstud, students, client_handlers, now, spc,
                   to_remove, scur, connFired, discFired, sweepFired, ownFired,
                   hreq, srunning, qid, qenc, qh, ncalls, rxmVars, bcVars, lockVars>>

\* handlers_to_send of broadcast_to_all: the (sid, handler) items of
\* client_handlers whose sid is not in exclude
HandlersToSend(exclude) ==
    {<<id, client_handlers[id]>> : id \in {i \in ApiIds : client_handlers[i] # 0 /\ i \notin exclude}}

\* broadcast_to_all(msg_type, data, exclude): message = Protocol.pack(...)
\* and the lock block that builds handlers_to_send
BcSnapshot(exclude, encodable) ==
    /\ bpc \in {"idle", "done"}
    /\ ncalls < MaxCalls
    /\ ncalls' = ncalls + 1
    /\ bexclude' = exclude
    /\ bmsg' = Packed(encodable)
    /\ bregistered' = client_handlers
    /\ bsnap' = HandlersToSend(exclude)
    /\ btodo' = HandlersToSend(exclude)
    /\ battempt' = [h \in Conns |-> 0]
    /\ bwrote' = [h \in Conns |-> 0]
    /\ bpc' = IF HandlersToSend(exclude) = {} THEN "done" ELSE "send"
    /\ UNCHANGED <<srvVars, rxmVars, stsVars, lockVars>>

\* one iteration of `for student_id, handler in handlers_to_send`:
\* handler.send_packet(message)
BcSend(e, ok) ==
    /\ bpc = "send"
    /\ e \in btodo
    /\ btodo' = btodo \ {e}
    /\ battempt' = [battempt EXCEPT ![e[2]] = @ + 1]
    /\ bwrote' = IF Written(e[2], bmsg = "frame", ok)
                 THEN [bwrote EXCEPT ![e[2]] = @ + 1] ELSE bwrote
    /\ hconn' = SendPacketConn(e[2], bmsg = "frame", ok)
    /\ hfirst' = IF Written(e[2], bmsg = "frame", ok)
                 THEN FirstWritten(e[2], "MSG") ELSE hfirst
    /\ hreply' = IF Written(e[2], bmsg = "frame", ok)
                 THEN [hreply EXCEPT ![e[2]] = "MSG"] ELSE hreply
    /\ bpc' = IF btodo \ {e} = {} THEN "done" ELSE "send"
    /\ UNCHANGED <<hpc, hmid, hsid, hstud, students, client_handlers, now, spc,
                   to_remove, scur, connFired, discFired, sweepFired, ownFired,
                   hreq, srunning, bexclude, bmsg, bregistered, bsnap, ncalls,
                   rxmVars,
                   stsVars, lockVars>>

ApiNext ==
    \/ \E h \in Conns, id \in ApiIds :
           Accept(h, id) /\ UNCHANGED <<asmVars, protoVars, sendVars, cliVars, dgramVars, apiVars, reVars>>
    \/ \E h \in Conns :
           RecvConnect(h, "full") /\ UNCHANGED <<asmVars, protoVars, sendVars, cliVars, dgramVars, apiVars, reVars>>
    \/ \E h \in Conns, id \in ApiIds :
           RecvConnectAgain(h, id) /\ UNCHANGED <<asmVars, protoVars, sendVars, cliVars, dgramVars, apiVars, reVars>>
    \/ \E h \in Conns : RegCheck(h) /\ UNCHANGED <<asmVars, protoVars, sendVars, cliVars, dgramVars, apiVars, reVars>>
    \/ \E h \in Conns : RegStore(h) /\ UNCHANGED <<asmVars, protoVars, sendVars, cliVars, dgramVars, apiVars, reVars>>
    \/ \E h \in Conns, ok \in BOOLEAN :
           RegSend(h, ok) /\ UNCHANGED <<asmVars, protoVars, sendVars, cliVars, dgramVars, apiVars, reVars>>
    \/ \E h \in Conns : RegCallback(h) /\ UNCHANGED <<asmVars, protoVars, sendVars, cliVars, dgramVars, apiVars, reVars>>
    \/ \E h \in Conns : RecvEof(h) /\ UNCHANGED <<asmVars, protoVars, sendVars, cliVars, dgramVars, apiVars, reVars>>
    \/ \E h \in Conns : LoopExit(h) /\ UNCHANGED <<asmVars, protoVars, sendVars, cliVars, dgramVars, apiVars, reVars>>
    \/ \E h \in Conns : Cleanup(h) /\ UNCHANGED <<asmVars, protoVars, sendVars, cliVars, dgramVars, apiVars, reVars>>
    \/ \E h \in Conns : Close(h) /\ UNCHANGED <<asmVars, protoVars, sendVars, cliVars, dgramVars, apiVars, reVars>>
    \/ \E id \in ApiIds, encodable \in BOOLEAN :
           StsLookup(id, encodable) /\ UNCHANGED <<asmVars, protoVars, sendVars, cliVars, dgramVars, reVars>>
    \/ \E ok \in BOOLEAN :
           StsSend(ok) /\ UNCHANGED <<asmVars, protoVars, sendVars, cliVars, dgramVars, reVars>>
    \/ \E exclude \in SUBSET ApiIds, encodable \in BOOLEAN :
           BcSnapshot(exclude, encodable) /\ UNCHANGED <<asmVars, protoVars, sendVars, cliVars, dgramVars, reVars>>
    \/ \E e \in ApiIds \X Conns, ok \in BOOLEAN :
           BcSend(e, ok) /\ UNCHANGED <<asmVars, protoVars, sendVars, cliVars, dgramVars, reVars>>

InitApi == ApiInit /\ AsmIdle /\ ProtoIdle /\ SendIdle /\ CliIdle /\ DgramIdle /\ ReIdle
SpecApi == InitApi /\ [][ApiNext]_vars


-----------------------------------------------------------------------------
(* _handle_client receiving PING and other messages at any time, also       *)
(* before the connection has registered.                                    *)

\* the connections that send messages at any time
EarlyConns == 1..NEarly

\* message types other than STUDENT_CONNECT
MessageKinds == {"PING", "OTHER"}

\* `if student_id:` in _handle_client
HasStudentId(h) == hsid[h] # 0

\* `if self.on_message_received and student_id:` followed by the call
DeliverAlways(h) == msgFired \cup {h}

Deliver(h) == IF HasStudentId(h) THEN msgFired \cup {h} ELSE msgFired

PreInit ==
    /\ SrvInit
    /\ hlast = [h \in Conns |-> "none"]
    /\ msgFired = {}
    /\ bpc = "off"
    /\ bexclude = {}
    /\ bmsg = "none"
    /\ bregistered = <<>>
    /\ bsnap = {}
    /\ btodo = {}
    /\ battempt = <<>>
    /\ bwrote = <<>>
    /\ qpc = "off"
    /\ qid = 0
    /\ qenc = FALSE
    /\ qh = 0
    /\ qret = "none"
    /\ qwrote = "none"
    /\ qcounted = FALSE
    /\ ncalls = 0
    /\ stoppc = "off"
    /\ students_lock = 0
    /\ incb = <<>>

\* the loop takes the next packet, a message of type `kind`
RecvMessage(h, kind) ==
    /\ hpc[h] = "recv"
    /\ hconn[h]
    /\ hlast' = [hlast EXCEPT ![h] = kind]
    /\ hpc' = [hpc EXCEPT ![h] = "msg"]
    /\ UNCHANGED <<hconn, hmid, hsid, hstud, students, client_handlers, now,
                   spc, to_remove, scur, connFired, discFired, sweepFired,
                   ownFired, hreq, hreply, hfirst, srunning, msgFired, bcVars,
                   stsVars, ncalls, lockVars>>

\* the PING branch: with a student_id, last_seen is set under the lock and
\* the PONG is sent next; without one, nothing is done
HandlePing(h) ==
    /\ hpc[h] = "msg"
    /\ hlast[h] = "PING"
    /\ students' = IF HasStudentId(h) /\ students[hsid[h]] # NoRec
                   THEN [students EXCEPT ![hsid[h]].last_seen = now]
                   ELSE students
    /\ hpc' = [hpc EXCEPT ![h] = IF HasStudentId(h) THEN "pong" ELSE "recv"]
    /\ UNCHANGED <<hconn, hmid, hsid, hstud, client_handlers, now, spc,
                   to_remove, scur, connFired, discFired, sweepFired, ownFired,
                   hreq, hreply, hfirst, srunning, apiVars>>

\* the else branch: on_message_received(student_id, message), if there is a
\* student_id
HandleOther(h) ==
    /\ hpc[h] = "msg"
    /\ hlast[h] = "OTHER"
    /\ msgFired' = Deliver(h)
    /\ hpc' = [hpc EXCEPT ![h] = "recv"]
    /\ UNCHANGED <<hconn, hmid, hsid, hstud, students, client_handlers, now,
                   spc, to_remove, scur, connFired, discFired, sweepFired,
                   ownFired, hreq, hreply, hfirst, srunning, hlast, bcVars,
                   stsVars, ncalls, lockVars>>

PreNext ==
    \/ \E h \in EarlyConns, id \in Ids :
           Accept(h, id) /\ UNCHANGED <<asmVars, protoVars, sendVars, cliVars, dgramVars, apiVars, reVars>>
    \/ \E h \in EarlyConns, req \in ReqKinds :
           RecvConnect(h, req) /\ UNCHANGED <<asmVars, protoVars, sendVars, cliVars, dgramVars, apiVars, reVars>>
    \/ \E h \in EarlyConns : RegCheck(h) /\ UNCHANGED <<asmVars, protoVars, sendVars, cliVars, dgramVars, apiVars, reVars>>
    \/ \E h \in EarlyConns : RegStore(h) /\ UNCHANGED <<asmVars, protoVars, sendVars, cliVars, dgramVars, apiVars, reVars>>
    \/ \E h \in EarlyConns, ok \in BOOLEAN :
           RegSend(h, ok) /\ UNCHANGED <<asmVars, protoVars, sendVars, cliVars, dgramVars, apiVars, reVars>>
    \/ \E h \in EarlyConns : RegCallback(h) /\ UNCHANGED <<asmVars, protoVars, sendVars, cliVars, dgramVars, apiVars, reVars>>
    \/ \E h \in EarlyConns, kind \in MessageKinds :
           RecvMessage(h, kind) /\ UNCHANGED <<asmVars, protoVars, sendVars, cliVars, dgramVars, reVars>>
    \/ \E h \in EarlyConns : HandlePing(h) /\ UNCHANGED <<asmVars, protoVars, sendVars, cliVars, dgramVars, reVars>>
    \/ \E h \in EarlyConns : HandleOther(h) /\ UNCHANGED <<asmVars, protoVars, sendVars, cliVars, dgramVars, reVars>>
    \/ \E h \in EarlyConns, ok \in BOOLEAN :
           SendPong(h, ok) /\ UNCHANGED <<asmVars, protoVars, sendVars, cliVars, dgramVars, apiVars, reVars>>
    \/ \E h \in EarlyConns : RecvEof(h) /\ UNCHANGED <<asmVars, protoVars, sendVars, cliVars, dgramVars, apiVars, reVars>>
    \/ \E h \in EarlyConns : LoopExit(h) /\ UNCHANGED <<asmVars, protoVars, sendVars, cliVars, dgramVars, apiVars, reVars>>
    \/ \E h \in EarlyConns : Cleanup(h) /\ UNCHANGED <<asmVars, protoVars, sendVars, cliVars, dgramVars, apiVars, reVars>>
    \/ \E h \in EarlyConns : Close(h) /\ UNCHANGED <<asmVars, protoVars, sendVars, cliVars, dgramVars, apiVars, reVars>>
    \/ SweepScan /\ UNCHANGED <<asmVars, protoVars, sendVars, cliVars, dgramVars, apiVars, reVars>>
    \/ \E id \in Ids : SweepClose(id) /\ UNCHANGED <<asmVars, protoVars, sendVars, cliVars, dgramVars, apiVars, reVars>>
    \/ SweepUnreg /\ UNCHANGED <<asmVars, protoVars, sendVars, cliVars, dgramVars, apiVars, reVars>>
    \/ Tick /\ UNCHANGED <<asmVars, protoVars, sendVars, cliVars, dgramVars, apiVars, reVars>>

InitPre == PreInit /\ AsmIdle /\ ProtoIdle /\ SendIdle /\ CliIdle /\ DgramIdle /\ ReIdle
SpecPre == InitPre /\ [][PreNext]_vars


-----------------------------------------------------------------------------
(* TeacherServer.stop() called while connections register, are replaced,    *)
(* go away and are evicted by the heartbeat sweep.                          *)

StopInit ==
    /\ SrvInit
    /\ hlast = <<>>
    /\ msgFired = {}
    /\ bpc = "off"
    /\ bexclude = {}
    /\ bmsg = "none"
    /\ bregistered = <<>>
    /\ bsnap = {}
    /\ btodo = {}
    /\ battempt = <<>>
    /\ bwrote = <<>>
    /\ qpc = "off"
    /\ qid = 0
    /\ qenc = FALSE
    /\ qh = 0
    /\ qret = "none"
    /\ qwrote = "none"
    /\ qcounted = FALSE
    /\ ncalls = 0
    /\ stoppc = "idle"
    /\ students_lock = 0
    /\ incb = <<>>

\* the identity a connection presents: the connections share the identities
\* in turn
Presents(h) == ((h - 1) % NIds) + 1

\* stop(): self.running = False
StopFlag ==
    /\ stoppc = "idle"
    /\ srunning' = FALSE
    /\ stoppc' = "flag"
    /\ UNCHANGED <<hpc, hconn, hmid, hsid, hstud, students, client_handlers,
                   now, spc, to_remove, scur, connFired, discFired, sweepFired,
                   ownFired, hreq, hreply, hfirst, rxmVars, bcVars, stsVars,
                   ncalls, students_lock, incb>>

\* the connected flags after handler.close() on every handler in
\* client_handlers
AllClosed ==
    [h \in DOMAIN hconn |->
        IF \E id \in DOMAIN client_handlers : client_handlers[id] = h
        THEN FALSE ELSE hconn[h]]

\* self.students.clear() without self.client_handlers.clear()
ClearedStudentsOnly == client_handlers

\* self.client_handlers.clear()
ClearedHandlers == [id \in DOMAIN client_handlers |-> 0]

\* stop(): the lock block closes every handler and clears both maps
StopClear ==
    /\ stoppc = "flag"
    /\ hconn' = AllClosed
    /\ client_handlers' = ClearedHandlers
    /\ students' = [id \in DOMAIN students |-> NoRec]
    /\ stoppc' = "done"
    /\ UNCHANGED <<hpc, hmid, hsid, hstud, now, spc, to_remove, scur,
                   connFired, discFired, sweepFired, ownFired, hreq, hreply,
                   hfirst, srunning, rxmVars, bcVars, stsVars, ncalls,
                   students_lock, incb>>

StopNext ==
    \/ \E h \in Conns :
           (srunning /\ Accept(h, Presents(h)))
           /\ UNCHANGED <<asmVars, protoVars, sendVars, cliVars, dgramVars, apiVars, reVars>>
    \/ \E h \in Conns :
           RecvConnect(h, "full") /\ UNCHANGED <<asmVars, protoVars, sendVars, cliVars, dgramVars, apiVars, reVars>>
    \/ \E h \in Conns : RegCheck(h) /\ UNCHANGED <<asmVars, protoVars, sendVars, cliVars, dgramVars, apiVars, reVars>>
    \/ \E h \in Conns : RegStore(h) /\ UNCHANGED <<asmVars, protoVars, sendVars, cliVars, dgramVars, apiVars, reVars>>
    \/ \E h \in Conns, ok \in BOOLEAN :
           RegSend(h, ok) /\ UNCHANGED <<asmVars, protoVars, sendVars, cliVars, dgramVars, apiVars, reVars>>
    \/ \E h \in Conns : RegCallback(h) /\ UNCHANGED <<asmVars, protoVars, sendVars, cliVars, dgramVars, apiVars, reVars>>
    \/ \E h \in Conns : RecvEof(h) /\ UNCHANGED <<asmVars, protoVars, sendVars, cliVars, dgramVars, apiVars, reVars>>
    \/ \E h \in Conns : LoopExit(h) /\ UNCHANGED <<asmVars, protoVars, sendVars, cliVars, dgramVars, apiVars, reVars>>
    \/ \E h \in Conns : Cleanup(h) /\ UNCHANGED <<asmVars, protoVars, sendVars, cliVars, dgramVars, apiVars, reVars>>
    \/ \E h \in Conns : Close(h) /\ UNCHANGED <<asmVars, protoVars, sendVars, cliVars, dgramVars, apiVars, reVars>>
    \/ SweepScan /\ UNCHANGED <<asmVars, protoVars, sendVars, cliVars, dgramVars, apiVars, reVars>>
    \/ \E id \in Ids : SweepClose(id) /\ UNCHANGED <<asmVars, protoVars, sendVars, cliVars, dgramVars, apiVars, reVars>>
    \/ SweepUnreg /\ UNCHANGED <<asmVars, protoVars, sendVars, cliVars, dgramVars, apiVars, reVars>>
    \/ Tick /\ UNCHANGED <<asmVars, protoVars, sendVars, cliVars, dgramVars, apiVars, reVars>>
    \/ StopFlag /\ UNCHANGED <<asmVars, protoVars, sendVars, cliVars, dgramVars, reVars>>
    \/ StopClear /\ UNCHANGED <<asmVars, protoVars, sendVars, cliVars, dgramVars, reVars>>

InitStop == StopInit /\ AsmIdle /\ ProtoIdle /\ SendIdle /\ CliIdle /\ DgramIdle /\ ReIdle
SpecStop == InitStop /\ [][StopNext]_vars


-----------------------------------------------------------------------------
(* The callbacks of TeacherServer and _students_lock. Here the lock is held *)
(* from the step that enters a block to the step that leaves it, and a      *)
(* callback may call get_students() or get_student_count(), which take the  *)
(* lock.                                                                    *)

\* no callback is running in the thread
NoCallback == [cb |-> "none", st |-> "none"]

\* the thread is inside callback cb
Running(cb) == [cb |-> cb, st |-> "running"]

LockInit ==
    /\ SrvInit
    /\ hlast = <<>>
    /\ msgFired = {}
    /\ bpc = "off"
    /\ bexclude = {}
    /\ bmsg = "none"
    /\ bregistered = <<>>
    /\ bsnap = {}
    /\ btodo = {}
    /\ battempt = <<>>
    /\ bwrote = <<>>
    /\ qpc = "off"
    /\ qid = 0
    /\ qenc = FALSE
    /\ qh = 0
    /\ qret = "none"
    /\ qwrote = "none"
    /\ qcounted = FALSE
    /\ ncalls = 0
    /\ stoppc = "off"
    /\ students_lock = 0
    /\ incb = [h \in Conns |-> NoCallback]

\* _register_student after the accept reply was sent: on_student_connected
\* is called
ConnectedCallback(h) ==
    /\ hpc[h] = "rcb"
    /\ connFired' = [connFired EXCEPT ![hmid[h]] = connFired[hmid[h]] + 1]
    /\ incb' = [incb EXCEPT ![h] = Running("on_student_connected")]
    /\ hpc' = [hpc EXCEPT ![h] = "incb"]
    /\ UNCHANGED <<hconn, hmid, hsid, hstud, students, client_handlers, now,
                   spc, to_remove, scur, discFired, sweepFired, ownFired, hreq,
                   hreply, hfirst, srunning, rxmVars, bcVars, stsVars, ncalls,
                   stoppc, students_lock>>

\* finally of _handle_client: _unregister_student(student_id) takes the lock
\* and, if the identity is in students, deletes the record and the handler
\* and calls on_student_disconnected inside the block; without a student_id,
\* or without a record, nothing is called
UnregisterEnter(h) ==
    /\ hpc[h] = "fin"
    /\ students_lock = 0
    /\ students' = UnregStudents(hsid[h])
    /\ client_handlers' = UnregHandlers(hsid[h])
    /\ discFired' = UnregFired(hsid[h])
    /\ IF hsid[h] # 0 /\ students[hsid[h]] # NoRec
       THEN /\ ownFired' = ownFired \cup {h}
            /\ students_lock' = h
            /\ incb' = [incb EXCEPT ![h] = Running("on_student_disconnected")]
            /\ hpc' = [hpc EXCEPT ![h] = "incb"]
       ELSE /\ ownFired' = ownFired
            /\ students_lock' = students_lock
            /\ incb' = incb
            /\ hpc' = [hpc EXCEPT ![h] = "close"]
    /\ UNCHANGED <<hconn, hmid, hsid, hstud, now, spc, to_remove, scur,
                   connFired, sweepFired, hreq, hreply, hfirst, srunning,
                   rxmVars, bcVars, stsVars, ncalls, stoppc>>

\* the callback calls get_students() or get_student_count(): the thread
\* waits at `with self._students_lock`
CallbackCalls(h) ==
    /\ incb[h].st = "running"
    /\ incb' = [incb EXCEPT ![h].st = "waiting"]
    /\ UNCHANGED <<srvVars, rxmVars, bcVars, stsVars, ncalls, stoppc, students_lock>>

\* threading.Lock is not reentrant: the block of get_students() /
\* get_student_count() is entered, and left, when no thread holds the lock
CallbackAnswered(h) ==
    /\ incb[h].st = "waiting"
    /\ students_lock = 0
    /\ incb' = [incb EXCEPT ![h].st = "answered"]
    /\ UNCHANGED <<srvVars, rxmVars, bcVars, stsVars, ncalls, stoppc, students_lock>>

\* the callback returns: _register_student returns the identity to
\* _handle_client; _unregister_student leaves its lock block
CallbackReturns(h) ==
    /\ incb[h].st \in {"running", "answered"}
    /\ incb' = [incb EXCEPT ![h] = NoCallback]
    /\ IF incb[h].cb = "on_student_connected"
       THEN /\ hsid' = [hsid EXCEPT ![h] = hmid[h]]
            /\ hreq' = [hreq EXCEPT ![h] = "none"]
            /\ hpc' = [hpc EXCEPT ![h] = "recv"]
            /\ students_lock' = students_lock
       ELSE /\ hsid' = hsid
            /\ hreq' = hreq
            /\ hpc' = [hpc EXCEPT ![h] = "close"]
            /\ students_lock' = 0
    /\ UNCHANGED <<hconn, hmid, hstud, students, client_handlers, now, spc,
                   to_remove, scur, connFired, discFired, sweepFired, ownFired,
                   hreply, hfirst, srunning, rxmVars, bcVars, stsVars, ncalls,
                   stoppc>>

LockNext ==
    \/ \E h \in Conns, id \in Ids :
           Accept(h, id) /\ UNCHANGED <<asmVars, protoVars, sendVars, cliVars, dgramVars, apiVars, reVars>>
    \/ \E h \in Conns :
           RecvConnect(h, "full") /\ UNCHANGED <<asmVars, protoVars, sendVars, cliVars, dgramVars, apiVars, reVars>>
    \/ \E h \in Conns :
           (students_lock = 0 /\ RegCheck(h))
           /\ UNCHANGED <<asmVars, protoVars, sendVars, cliVars, dgramVars, apiVars, reVars>>
    \/ \E h \in Conns :
           (students_lock = 0 /\ RegStore(h))
           /\ UNCHANGED <<asmVars, protoVars, sendVars, cliVars, dgramVars, apiVars, reVars>>
    \/ \E h \in Conns, ok \in BOOLEAN :
           RegSend(h, ok) /\ UNCHANGED <<asmVars, protoVars, sendVars, cliVars, dgramVars, apiVars, reVars>>
    \/ \E h \in Conns :
           ConnectedCallback(h) /\ UNCHANGED <<asmVars, protoVars, sendVars, cliVars, dgramVars, reVars>>
    \/ \E h \in Conns : RecvEof(h) /\ UNCHANGED <<asmVars, protoVars, sendVars, cliVars, dgramVars, apiVars, reVars>>
    \/ \E h \in Conns : LoopExit(h) /\ UNCHANGED <<asmVars, protoVars, sendVars, cliVars, dgramVars, apiVars, reVars>>
    \/ \E h \in Conns :
           UnregisterEnter(h) /\ UNCHANGED <<asmVars, protoVars, sendVars, cliVars, dgramVars, reVars>>
    \/ \E h \in Conns :
           CallbackCalls(h) /\ UNCHANGED <<asmVars, protoVars, sendVars, cliVars, dgramVars, reVars>>
    \/ \E h \in Conns :
           CallbackAnswered(h) /\ UNCHANGED <<asmVars, protoVars, sendVars, cliVars, dgramVars, reVars>>
    \/ \E h \in Conns :
           CallbackReturns(h) /\ UNCHANGED <<asmVars, protoVars, sendVars, cliVars, dgramVars, reVars>>
    \/ \E h \in Conns : Close(h) /\ UNCHANGED <<asmVars, protoVars, sendVars, cliVars, dgramVars, apiVars, reVars>>

InitLock == LockInit /\ AsmIdle /\ ProtoIdle /\ SendIdle /\ CliIdle /\ DgramIdle /\ ReIdle
SpecLock == InitLock /\ [][LockNext]_vars


-----------------------------------------------------------------------------
(* StudentClient: connect_to_teacher, _receive_messages, _send_heartbeat    *)
(* and disconnect. The server is the environment: it writes frames to the   *)
(* connection and may close it. A read hands the assembler the bytes of the *)
(* next k whole frames (and possibly part of the one after them).           *)

\* threads that call disconnect(): the caller and the _receive_messages thread
DThreads == {"caller", "receiver"}

\* what a frame on the connection decodes to: the two registration replies,
\* PONG, any other message (known or unknown type), a frame that unpack
\* rejects, and a payload that decodes to something that is not a dict
FrameKindsCli == {"ACCEPT", "REJECT", "PONG", "MSG", "BAD", "NONMAP"}

\* Protocol.unpack returns a dict whose type is not PONG
IsMessage(kind) == kind \in {"ACCEPT", "REJECT", "MSG"}

CliInit ==
    /\ cpc = "idle"
    /\ cconnected = FALSE
    /\ csock = "none"
    /\ casm = FALSE
    /\ cwire = <<>>
    /\ srvOpen = FALSE
    /\ nsent = 0
    /\ expected = <<>>
    /\ delivered = <<>>
    /\ rpc = "off"
    /\ hbpc = "off"
    /\ hbFailed = FALSE
    /\ dpc = [t \in DThreads |-> "none"]
    /\ closes = 0
    /\ cdisc = 0

\* the server has written its accept reply
AcceptWritten == cpc = "up" \/ \E i \in 1..Len(cwire) : cwire[i].kind = "ACCEPT"

\* the server writes one frame
SrvWrite(kind) ==
    /\ srvOpen
    /\ nsent < MaxFrames
    /\ nsent' = nsent + 1
    /\ cwire' = Append(cwire, [kind |-> kind, n |-> nsent + 1])
    /\ expected' = IF AcceptWritten /\ IsMessage(kind)
                   THEN Append(expected, [kind |-> kind, n |-> nsent + 1])
                   ELSE expected
    /\ UNCHANGED <<cpc, cconnected, csock, casm, srvOpen, delivered, rpc, hbpc,
                   hbFailed, dpc, closes, cdisc>>

\* the server closes the connection
SrvClose ==
    /\ srvOpen
    /\ srvOpen' = FALSE
    /\ UNCHANGED <<cpc, cconnected, csock, casm, cwire, nsent, expected,
                   delivered, rpc, hbpc, hbFailed, dpc, closes, cdisc>>

\* connect_to_teacher: socket(), connect(), TCPPacketAssembler(),
\* _send_raw(student_connect), settimeout(5.0); when connect raises, the
\* except branch closes the socket and returns False
ConnectStart(ok) ==
    /\ cpc = "idle"
    /\ IF ok
       THEN /\ cpc' = "wait"
            /\ csock' = "open"
            /\ casm' = TRUE
            /\ srvOpen' = TRUE
       ELSE /\ cpc' = "failed"
            /\ csock' = "none"
            /\ casm' = casm
            /\ srvOpen' = srvOpen
    /\ UNCHANGED <<cconnected, cwire, nsent, expected, delivered, rpc, hbpc,
                   hbFailed, dpc, closes, cdisc>>

\* connect_to_teacher: the branch taken on packets[0]
ReplyBranchAcceptsAny(kind) == "accepted"

ReplyBranch(kind) ==
    CASE kind = "ACCEPT" -> "accepted"
      [] kind = "NONMAP" -> "raised"      \* response.get raises
      [] OTHER           -> "refused"     \* rejected or unknown reply

\* connect_to_teacher: data = recv(); packets = feed(data) holds the first k
\* frames; no packet or a reply other than accept returns False; on accept
\* connected = True and the two threads are started. Only packets[0] is used.
ConnectRecv(k) ==
    /\ cpc = "wait"
    /\ k \in 0..Len(cwire)
    /\ cwire' = SubSeq(cwire, k + 1, Len(cwire))
    /\ LET branch == IF k = 0 THEN "refused" ELSE ReplyBranch(cwire[1].kind)
       IN  /\ cpc' = IF branch = "accepted" THEN "up" ELSE "failed"
           /\ cconnected' = (branch = "accepted")
           /\ rpc' = IF branch = "accepted" THEN "run" ELSE rpc
           /\ hbpc' = IF branch = "accepted" THEN "run" ELSE hbpc
           /\ csock' = IF branch = "raised" THEN "none" ELSE csock
    /\ UNCHANGED <<casm, srvOpen, nsent, expected, delivered, hbFailed, dpc,
                   closes, cdisc>>

\* connect_to_teacher: recv raises (timeout after 5 s, reset): the except
\* branch closes the socket, sets tcp_socket = None and returns False
ConnectTimeout ==
    /\ cpc = "wait"
    /\ cpc' = "failed"
    /\ csock' = "none"
    /\ UNCHANGED <<cconnected, casm, cwire, srvOpen, nsent, expected, delivered,
                   rpc, hbpc, hbFailed, dpc, closes, cdisc>>

\* the caller calls disconnect()
CallDisconnect ==
    /\ cpc \in {"up", "failed"}
    /\ dpc["caller"] = "none"
    /\ dpc' = [dpc EXCEPT !["caller"] = "d1"]
    /\ UNCHANGED <<cpc, cconnected, csock, casm, cwire, srvOpen, nsent, expected,
                   delivered, rpc, hbpc, hbFailed, closes, cdisc>>

\* disconnect() has returned in thread t; the receive loop then breaks
Returned(t) == IF t = "receiver" THEN "ended" ELSE rpc

\* disconnect(): `if not self.connected: return`
Disc1(t) ==
    /\ dpc[t] = "d1"
    /\ IF cconnected
       THEN /\ dpc' = [dpc EXCEPT ![t] = "d2"]
            /\ rpc' = rpc
       ELSE /\ dpc' = [dpc EXCEPT ![t] = "none"]
            /\ rpc' = Returned(t)
    /\ UNCHANGED <<cpc, cconnected, csock, casm, cwire, srvOpen, nsent, expected,
                   delivered, hbpc, hbFailed, closes, cdisc>>

\* disconnect(): self.connected = False
Disc2(t) ==
    /\ dpc[t] = "d2"
    /\ cconnected' = FALSE
    /\ dpc' = [dpc EXCEPT ![t] = "d3"]
    /\ UNCHANGED <<cpc, csock, casm, cwire, srvOpen, nsent, expected, delivered,
                   rpc, hbpc, hbFailed, closes, cdisc>>

\* disconnect(): close the socket if it is set and set it to None; clear and
\* drop the assembler if it is set
Disc3(t) ==
    /\ dpc[t] = "d3"
    /\ closes' = IF csock = "open" THEN closes + 1 ELSE closes
    /\ csock' = "none"
    /\ casm' = FALSE
    /\ dpc' = [dpc EXCEPT ![t] = "d4"]
    /\ UNCHANGED <<cpc, cconnected, cwire, srvOpen, nsent, expected, delivered,
                   rpc, hbpc, hbFailed, cdisc>>

\* disconnect(): on_disconnected(), return
Disc4(t) ==
    /\ dpc[t] = "d4"
    /\ cdisc' = cdisc + 1
    /\ dpc' = [dpc EXCEPT ![t] = "none"]
    /\ rpc' = Returned(t)
    /\ UNCHANGED <<cpc, cconnected, csock, casm, cwire, srvOpen, nsent, expected,
                   delivered, hbpc, hbFailed, closes>>

\* _receive_messages: the frames of one read that reach on_message_received:
\* those before the first frame that makes message.get raise, without PONG
\* and without the frames unpack rejects
RECURSIVE Handled(_)
Handled(batch) ==
    IF batch = <<>> \/ Head(batch).kind = "NONMAP" THEN <<>>
    ELSE IF IsMessage(Head(batch).kind) THEN <<Head(batch)>> \o Handled(Tail(batch))
    ELSE Handled(Tail(batch))

\* _receive_messages: processing this read raises inside the loop
Raises(batch) == \E i \in 1..Len(batch) : batch[i].kind = "NONMAP"

\* _receive_messages: one recv that returns data with k whole frames; when
\* processing raises, `if self.connected: self.disconnect()` and break
RecvData(k) ==
    /\ rpc = "run"
    /\ cconnected
    /\ csock = "open"
    /\ k \in 1..Len(cwire)
    /\ cwire' = SubSeq(cwire, k + 1, Len(cwire))
    /\ delivered' = delivered \o Handled(SubSeq(cwire, 1, k))
    /\ IF Raises(SubSeq(cwire, 1, k))
       THEN /\ rpc' = "disc"
            /\ dpc' = [dpc EXCEPT !["receiver"] = "d1"]
       ELSE UNCHANGED <<rpc, dpc>>
    /\ UNCHANGED <<cpc, cconnected, csock, casm, srvOpen, nsent, expected, hbpc,
                   hbFailed, closes, cdisc>>

\* _receive_messages: recv returns b'' (the server closed and all its data
\* was read): self.disconnect(); break
RecvClosed ==
    /\ rpc = "run"
    /\ cconnected
    /\ csock = "open"
    /\ ~srvOpen
    /\ cwire = <<>>
    /\ rpc' = "disc"
    /\ dpc' = [dpc EXCEPT !["receiver"] = "d1"]
    /\ UNCHANGED <<cpc, cconnected, csock, casm, cwire, srvOpen, nsent, expected,
                   delivered, hbpc, hbFailed, closes, cdisc>>

\* _receive_messages: `while self.connected` ends, or the socket was set to
\* None by disconnect() in another thread and the except branch breaks
RecvLoopExit ==
    /\ rpc = "run"
    /\ ~cconnected
    /\ rpc' = "ended"
    /\ UNCHANGED <<cpc, cconnected, csock, casm, cwire, srvOpen, nsent, expected,
                   delivered, hbpc, hbFailed, dpc, closes, cdisc>>

\* _send_heartbeat: send_message(PING) returned True; sleep
HbSendOk ==
    /\ hbpc = "run"
    /\ cconnected
    /\ csock = "open"
    /\ UNCHANGED cliVars

\* _send_heartbeat: send_message(PING) returned False (the socket is None,
\* or send returned 0 or raised): break
HbSendFail ==
    /\ hbpc = "run"
    /\ cconnected
    /\ hbpc' = "ended"
    /\ hbFailed' = TRUE
    /\ UNCHANGED <<cpc, cconnected, csock, casm, cwire, srvOpen, nsent, expected,
                   delivered, rpc, dpc, closes, cdisc>>

\* _send_heartbeat: `while self.connected` ends
HbLoopExit ==
    /\ hbpc = "run"
    /\ ~cconnected
    /\ hbpc' = "ended"
    /\ UNCHANGED <<cpc, cconnected, csock, casm, cwire, srvOpen, nsent, expected,
                   delivered, rpc, hbFailed, dpc, closes, cdisc>>

CliNext ==
    \/ \E kind \in FrameKindsCli :
           SrvWrite(kind) /\ UNCHANGED <<asmVars, protoVars, sendVars, srvVars, dgramVars, apiVars, reVars>>
    \/ SrvClose /\ UNCHANGED <<asmVars, protoVars, sendVars, srvVars, dgramVars, apiVars, reVars>>
    \/ \E ok \in BOOLEAN :
           ConnectStart(ok) /\ UNCHANGED <<asmVars, protoVars, sendVars, srvVars, dgramVars, apiVars, reVars>>
    \/ \E k \in 0..MaxFrames :
           ConnectRecv(k) /\ UNCHANGED <<asmVars, protoVars, sendVars, srvVars, dgramVars, apiVars, reVars>>
    \/ ConnectTimeout /\ UNCHANGED <<asmVars, protoVars, sendVars, srvVars, dgramVars, apiVars, reVars>>
    \/ CallDisconnect /\ UNCHANGED <<asmVars, protoVars, sendVars, srvVars, dgramVars, apiVars, reVars>>
    \/ \E t \in DThreads : Disc1(t) /\ UNCHANGED <<asmVars, protoVars, sendVars, srvVars, dgramVars, apiVars, reVars>>
    \/ \E t \in DThreads : Disc2(t) /\ UNCHANGED <<asmVars, protoVars, sendVars, srvVars, dgramVars, apiVars, reVars>>
    \/ \E t \in DThreads : Disc3(t) /\ UNCHANGED <<asmVars, protoVars, sendVars, srvVars, dgramVars, apiVars, reVars>>
    \/ \E t \in DThreads : Disc4(t) /\ UNCHANGED <<asmVars, protoVars, sendVars, srvVars, dgramVars, apiVars, reVars>>
    \/ \E k \in 1..MaxFrames :
           RecvData(k) /\ UNCHANGED <<asmVars, protoVars, sendVars, srvVars, dgramVars, apiVars, reVars>>
    \/ RecvClosed /\ UNCHANGED <<asmVars, protoVars, sendVars, srvVars, dgramVars, apiVars, reVars>>
    \/ RecvLoopExit /\ UNCHANGED <<asmVars, protoVars, sendVars, srvVars, dgramVars, apiVars, reVars>>
    \/ HbSendOk /\ UNCHANGED <<asmVars, protoVars, sendVars, srvVars, dgramVars, apiVars, reVars>>
    \/ HbSendFail /\ UNCHANGED <<asmVars, protoVars, sendVars, srvVars, dgramVars, apiVars, reVars>>
    \/ HbLoopExit /\ UNCHANGED <<asmVars, protoVars, sendVars, srvVars, dgramVars, apiVars, reVars>>

InitCli == CliInit /\ AsmIdle /\ ProtoIdle /\ SendIdle /\ SrvIdle /\ DgramIdle
           /\ ApiIdle /\ ReIdle
SpecCli == InitCli /\ [][CliNext]_vars

-----------------------------------------------------------------------------
(* StudentClient used for more than one connection: disconnect() followed   *)
(* by connect_to_teacher() on the same object. Sockets are numbered by the  *)
(* call that created them; the receive loop and the heartbeat loop started  *)
(* by call g are loop g. Thread 0 is the caller.                            *)

Loops == 1..MaxConnects

ReThreads == 0..MaxConnects

ReInit ==
    /\ kconnected = FALSE
    /\ ksock = 0
    /\ kopen = {}
    /\ kgen = 0
    /\ kacc = 0
    /\ kcpc = "idle"
    /\ kdpc = [t \in ReThreads |-> "none"]
    /\ krpc = [g \in Loops |-> "off"]
    /\ krsock = [g \in Loops |-> 0]
    /\ khpc = [g \in Loops |-> "off"]
    /\ kpings = {}
    /\ kdisc = 0

\* connect_to_teacher: self.tcp_socket = socket.socket(...); connect();
\* _send_raw(student_connect)
KConnectOpen ==
    /\ kcpc = "idle"
    /\ kgen < MaxConnects
    /\ kgen' = kgen + 1
    /\ ksock' = kgen + 1
    /\ kopen' = kopen \cup {kgen + 1}
    /\ kcpc' = "wait"
    /\ UNCHANGED <<kconnected, kacc, kdpc, krpc, krsock, khpc, kpings, kdisc>>

\* connect_to_teacher: the reply is read. On accept connected = True and
\* _start_client_threads(); a reject or an unknown reply returns False; when
\* recv raises, or tcp_socket was set to None meanwhile, the except branch
\* closes the socket that is set and returns False
KConnectReply(reply) ==
    /\ kcpc = "wait"
    /\ reply # "raised" => ksock = kgen /\ kgen \in kopen
    /\ CASE reply = "accepted" ->
              /\ kconnected' = TRUE
              /\ kacc' = kgen
              /\ krpc' = [krpc EXCEPT ![kgen] = "run"]
              /\ khpc' = [khpc EXCEPT ![kgen] = "run"]
              /\ kcpc' = "up"
              /\ UNCHANGED <<ksock, kopen>>
         [] reply = "refused" ->
              /\ kcpc' = "idle"
              /\ UNCHANGED <<kconnected, kacc, krpc, khpc, ksock, kopen>>
         [] OTHER ->
              /\ kcpc' = "idle"
              /\ kopen' = kopen \ {ksock}
              /\ ksock' = 0
              /\ UNCHANGED <<kconnected, kacc, krpc, khpc>>
    /\ UNCHANGED <<kgen, kdpc, krsock, kpings, kdisc>>

\* the caller calls disconnect()
KCallDisconnect ==
    /\ kcpc = "up"
    /\ kcpc' = "disc"
    /\ kdpc' = [kdpc EXCEPT ![0] = "d1"]
    /\ UNCHANGED <<kconnected, ksock, kopen, kgen, kacc, krpc, krsock, khpc,
                   kpings, kdisc>>

\* disconnect() returns in thread t: the caller may connect again, a receive
\* loop breaks
KCallerAfter(t) == IF t = 0 THEN "idle" ELSE kcpc

KLoopAfter(t) == IF t = 0 THEN krpc ELSE [krpc EXCEPT ![t] = "ended"]

\* disconnect(): `if not self.connected: return`
KDisc1(t) ==
    /\ kdpc[t] = "d1"
    /\ IF kconnected
       THEN /\ kdpc' = [kdpc EXCEPT ![t] = "d2"]
            /\ UNCHANGED <<kcpc, krpc>>
       ELSE /\ kdpc' = [kdpc EXCEPT ![t] = "none"]
            /\ kcpc' = KCallerAfter(t)
            /\ krpc' = KLoopAfter(t)
    /\ UNCHANGED <<kconnected, ksock, kopen, kgen, kacc, krsock, khpc, kpings,
                   kdisc>>

\* disconnect(): self.connected = False
KDisc2(t) ==
    /\ kdpc[t] = "d2"
    /\ kconnected' = FALSE
    /\ kdpc' = [kdpc EXCEPT ![t] = "d3"]
    /\ UNCHANGED <<ksock, kopen, kgen, kacc, kcpc, krpc, krsock, khpc, kpings,
                   kdisc>>

\* disconnect(): `if self.tcp_socket:` close it and set it to None
KDisc3(t) ==
    /\ kdpc[t] = "d3"
    /\ kopen' = kopen \ {ksock}
    /\ ksock' = 0
    /\ kdpc' = [kdpc EXCEPT ![t] = "d4"]
    /\ UNCHANGED <<kconnected, kgen, kacc, kcpc, krpc, krsock, khpc, kpings,
                   kdisc>>

\* disconnect(): on_disconnected(), return
KDisc4(t) ==
    /\ kdpc[t] = "d4"
    /\ kdisc' = kdisc + 1
    /\ kdpc' = [kdpc EXCEPT ![t] = "none"]
    /\ kcpc' = KCallerAfter(t)
    /\ krpc' = KLoopAfter(t)
    /\ UNCHANGED <<kconnected, ksock, kopen, kgen, kacc, krsock, khpc, kpings>>

\* _receive_messages: `while self.connected`
KRecvTop(g) ==
    /\ krpc[g] = "run"
    /\ krpc' = [krpc EXCEPT ![g] = IF kconnected THEN "sock" ELSE "ended"]
    /\ UNCHANGED <<kconnected, ksock, kopen, kgen, kacc, kcpc, kdpc, krsock,
                   khpc, kpings, kdisc>>

\* _receive_messages: self.tcp_socket.settimeout(1.0) and recv start on the
\* socket the attribute holds now; on None the call raises
KRecvSock(g) ==
    /\ krpc[g] = "sock"
    /\ krsock' = [krsock EXCEPT ![g] = ksock]
    /\ krpc' = [krpc EXCEPT ![g] = IF ksock = 0 THEN "exc" ELSE "recv"]
    /\ UNCHANGED <<kconnected, ksock, kopen, kgen, kacc, kcpc, kdpc, khpc,
                   kpings, kdisc>>

\* _receive_messages: recv returns data, which is processed, or times out
\* after 1 s: the loop goes on
KRecvTimeout(g) ==
    /\ krpc[g] = "recv"
    /\ krsock[g] \in kopen
    /\ krpc' = [krpc EXCEPT ![g] = "run"]
    /\ UNCHANGED <<kconnected, ksock, kopen, kgen, kacc, kcpc, kdpc, krsock,
                   khpc, kpings, kdisc>>

\* _receive_messages: recv returns b'' because the server closed the
\* connection: self.disconnect(); break
KRecvEof(g) ==
    /\ krpc[g] = "recv"
    /\ krsock[g] \in kopen
    /\ krpc' = [krpc EXCEPT ![g] = "disc"]
    /\ kdpc' = [kdpc EXCEPT ![g] = "d1"]
    /\ UNCHANGED <<kconnected, ksock, kopen, kgen, kacc, kcpc, krsock, khpc,
                   kpings, kdisc>>

\* _receive_messages: recv raises because the socket was closed by this
\* process
KRecvError(g) ==
    /\ krpc[g] = "recv"
    /\ krsock[g] \notin kopen
    /\ krpc' = [krpc EXCEPT ![g] = "exc"]
    /\ UNCHANGED <<kconnected, ksock, kopen, kgen, kacc, kcpc, kdpc, krsock,
                   khpc, kpings, kdisc>>

\* _receive_messages: `except Exception: if self.connected:
\* self.disconnect()` and break
KRecvExc(g) ==
    /\ krpc[g] = "exc"
    /\ IF kconnected
       THEN /\ krpc' = [krpc EXCEPT ![g] = "disc"]
            /\ kdpc' = [kdpc EXCEPT ![g] = "d1"]
       ELSE /\ krpc' = [krpc EXCEPT ![g] = "ended"]
            /\ kdpc' = kdpc
    /\ UNCHANGED <<kconnected, ksock, kopen, kgen, kacc, kcpc, krsock, khpc,
                   kpings, kdisc>>

\* _send_heartbeat: `while self.connected`
KHbTop(g) ==
    /\ khpc[g] = "run"
    /\ khpc' = [khpc EXCEPT ![g] = IF kconnected THEN "send" ELSE "ended"]
    /\ UNCHANGED <<kconnected, ksock, kopen, kgen, kacc, kcpc, kdpc, krpc,
                   krsock, kpings, kdisc>>

\* _send_heartbeat: send_message(PING) returns False when connected is False
\* or tcp_socket is None, and the loop breaks; otherwise the PING is written
\* to the socket the attribute holds now and the loop sleeps
KHbSend(g) ==
    /\ khpc[g] = "send"
    /\ IF kconnected /\ ksock # 0
       THEN /\ kpings' = kpings \cup {<<g, ksock>>}
            /\ khpc' = [khpc EXCEPT ![g] = "run"]
       ELSE /\ kpings' = kpings
            /\ khpc' = [khpc EXCEPT ![g] = "ended"]
    /\ UNCHANGED <<kconnected, ksock, kopen, kgen, kacc, kcpc, kdpc, krpc,
                   krsock, kdisc>>

ReNext ==
    \/ KConnectOpen /\ UNCHANGED <<asmVars, protoVars, sendVars, srvVars, cliVars, dgramVars, apiVars>>
    \/ \E reply \in {"accepted", "refused", "raised"} :
           KConnectReply(reply) /\ UNCHANGED <<asmVars, protoVars, sendVars, srvVars, cliVars, dgramVars, apiVars>>
    \/ KCallDisconnect /\ UNCHANGED <<asmVars, protoVars, sendVars, srvVars, cliVars, dgramVars, apiVars>>
    \/ \E t \in ReThreads :
           KDisc1(t) /\ UNCHANGED <<asmVars, protoVars, sendVars, srvVars, cliVars, dgramVars, apiVars>>
    \/ \E t \in ReThreads :
           KDisc2(t) /\ UNCHANGED <<asmVars, protoVars, sendVars, srvVars, cliVars, dgramVars, apiVars>>
    \/ \E t \in ReThreads :
           KDisc3(t) /\ UNCHANGED <<asmVars, protoVars, sendVars, srvVars, cliVars, dgramVars, apiVars>>
    \/ \E t \in ReThreads :
           KDisc4(t) /\ UNCHANGED <<asmVars, protoVars, sendVars, srvVars, cliVars, dgramVars, apiVars>>
    \/ \E g \in Loops :
           KRecvTop(g) /\ UNCHANGED <<asmVars, protoVars, sendVars, srvVars, cliVars, dgramVars, apiVars>>
    \/ \E g \in Loops :
           KRecvSock(g) /\ UNCHANGED <<asmVars, protoVars, sendVars, srvVars, cliVars, dgramVars, apiVars>>
    \/ \E g \in Loops :
           KRecvTimeout(g) /\ UNCHANGED <<asmVars, protoVars, sendVars, srvVars, cliVars, dgramVars, apiVars>>
    \/ \E g \in Loops :
           KRecvEof(g) /\ UNCHANGED <<asmVars, protoVars, sendVars, srvVars, cliVars, dgramVars, apiVars>>
    \/ \E g \in Loops :
           KRecvError(g) /\ UNCHANGED <<asmVars, protoVars, sendVars, srvVars, cliVars, dgramVars, apiVars>>
    \/ \E g \in Loops :
           KRecvExc(g) /\ UNCHANGED <<asmVars, protoVars, sendVars, srvVars, cliVars, dgramVars, apiVars>>
    \/ \E g \in Loops :
           KHbTop(g) /\ UNCHANGED <<asmVars, protoVars, sendVars, srvVars, cliVars, dgramVars, apiVars>>
    \/ \E g \in Loops :
           KHbSend(g) /\ UNCHANGED <<asmVars, protoVars, sendVars, srvVars, cliVars, dgramVars, apiVars>>

InitRe == ReInit /\ AsmIdle /\ ProtoIdle /\ SendIdle /\ SrvIdle /\ CliIdle
          /\ DgramIdle /\ ApiIdle
SpecRe == InitRe /\ [][ReNext]_vars


-----------------------------------------------------------------------------
(* StudentClient._listen_broadcasts: the discovery thread receives presence *)
(* announcements (the multicast copy, the broadcast copy, the periodic      *)
(* repeats) and other datagrams on its one socket, in any order.            *)

TEACHER_BROADCAST == <<84, 69, 65, 67, 72, 69, 82, 95, 66, 82, 79, 65, 68, 67, 65, 83, 84>>
KEY_TEACHER_NAME == <<116, 101, 97, 99, 104, 101, 114, 95, 110, 97, 109, 101>>
KEY_CHANNEL == <<99, 104, 97, 110, 110, 101, 108>>
KEY_PORT == <<112, 111, 114, 116>>
NONE_TEXT == <<78, 111, 110, 101>>

\* source addresses of the datagrams: "10.0.0.5" and "10.0.0.51"
Addresses == {<<49, 48, 46, 48, 46, 48, 46, 53>>,
              <<49, 48, 46, 48, 46, 48, 46, 53, 49>>}

TeacherNames == {<<84>>, <<85>>}

AnnouncedPorts == {5000, 15000}

TheTimestamp == CHOOSE ts \in Timestamps : TRUE

\* MessageBuilder.teacher_broadcast(teacher_name, channel, port)
TeacherBroadcast(teacher_name, channel, port) ==
    Pack(TEACHER_BROADCAST,
         JO(<<[k |-> KEY_TEACHER_NAME, v |-> JS(teacher_name)],
              [k |-> KEY_CHANNEL, v |-> JN(channel)],
              [k |-> KEY_PORT, v |-> JN(port)]>>),
         FALSE, TheTimestamp)

\* what arrives on the discovery socket: announcements as the server builds
\* them, an announcement without a port, an announcement whose data is not a
\* dict, a frame of another type, and bytes that are no frame
DatagramBodies ==
    {TeacherBroadcast(name, 1, port) : name \in TeacherNames, port \in AnnouncedPorts}
    \cup {Pack(TEACHER_BROADCAST,
               JO(<<[k |-> KEY_TEACHER_NAME, v |-> JS(<<84>>)]>>), FALSE, TheTimestamp),
          Pack(TEACHER_BROADCAST, JS(<<120>>), FALSE, TheTimestamp),
          Pack(PING, JO(<<>>), FALSE, TheTimestamp),
          <<120, 121, 122>>}

\* Protocol.unpack(data) for each of these datagrams
UnpackedBody == [data \in DatagramBodies |-> Unpack(data)]

\* f"{port}" for the value msg_data.get("port") returned
FormatPort(port) ==
    IF ~port.ok THEN NONE_TEXT
    ELSE IF port.v.t = "n" THEN DigitsOf(port.v.n)
    ELSE port.v.s

\* teacher_id = f"{address[0]}:{port}"
TeacherId(address, port) == address \o <<COLON>> \o FormatPort(port)

\* the test `teacher_id not in self.available_teachers`, negated
KnownNever(teacher_id) == FALSE

Known(teacher_id) == teacher_id \in DOMAIN available_teachers

\* self.available_teachers[teacher_id] = teacher
WithTeacher(teacher_id, teacher) ==
    [id \in (DOMAIN available_teachers) \cup {teacher_id} |->
        IF id = teacher_id THEN teacher ELSE available_teachers[id]]

DiscInit ==
    /\ available_teachers = <<>>
    /\ teacherFound = <<>>
    /\ heard = {}
    /\ nheard = 0

\* msg_data = message.get("data", {}) of an unpacked frame
MsgData(message) == Get(message, KEY_DATA)

\* the frame passes `if message and message["type"] == TEACHER_BROADCAST` and
\* the msg_data.get calls do not raise (msg_data is a dict or the default {})
Announces(message) ==
    /\ message.ok
    /\ Get(message.v, KEY_TYPE) = [ok |-> TRUE, v |-> JS(TEACHER_BROADCAST)]
    /\ (MsgData(message.v).ok => MsgData(message.v).v.t = "o")

\* the dict the msg_data.get calls read
Fields(message) ==
    IF MsgData(message).ok THEN MsgData(message).v ELSE JO(<<>>)

\* teacher = Teacher(id=teacher_id, name=..., ip_address=address[0],
\* channel=..., port=...)
Teacher(address, fields) ==
    [id |-> TeacherId(address, Get(fields, KEY_PORT)),
     name |-> Get(fields, KEY_TEACHER_NAME),
     ip_address |-> address,
     channel |-> Get(fields, KEY_CHANNEL),
     port |-> Get(fields, KEY_PORT)]

\* one iteration of the loop of _listen_broadcasts that received `data` from
\* `address`: frames that do not unpack and frames of another type are
\* skipped; msg_data.get on data that is not a dict raises and the exception
\* is logged; otherwise the Teacher is stored, and on_teacher_found is called
\* if its id was not in available_teachers
Listen(address, data) ==
    /\ nheard < MaxDatagrams
    /\ nheard' = nheard + 1
    /\ IF ~Announces(UnpackedBody[data])
       THEN UNCHANGED <<available_teachers, teacherFound, heard>>
       ELSE LET teacher == Teacher(address, Fields(UnpackedBody[data].v))
            IN  /\ available_teachers' = WithTeacher(teacher.id, teacher)
                /\ teacherFound' = IF Known(teacher.id) THEN teacherFound
                                   ELSE Append(teacherFound, teacher.id)
                /\ heard' = heard \cup {<<address, teacher.port>>}

DiscNext ==
    \E address \in Addresses, data \in DatagramBodies :
        Listen(address, data)
        /\ UNCHANGED <<asmVars, protoVars, sendVars, srvVars, cliVars, rxVars, mcVars, apiVars, reVars>>

InitDisc == DiscInit /\ AsmIdle /\ ProtoIdle /\ SendIdle /\ SrvIdle /\ CliIdle
            /\ RxIdle /\ McIdle /\ ApiIdle /\ ReIdle
SpecDisc == InitDisc /\ [][DiscNext]_vars


-----------------------------------------------------------------------------
(* ScreenReceiverOptimized fed by MulticastReceiver._receive_loop: the      *)
(* datagrams of the capture side arrive reordered, duplicated or not at     *)
(* all, among datagrams that are no frames.                                 *)

\* the first bytes of a JPEG image
JPEG_SOI == <<255, 216>>

\* image data of the pictures 1 and 2, and data that is no image
FramePayloads == {JPEG_SOI \o <<1>>, JPEG_SOI \o <<2>>, <<7, 7, 7>>}

\* ScreenCaptureOptimized._send_frame:
\* frame_packet = self.frame_count.to_bytes(4, 'big') + frame_data
FramePacket(frame_count, frame_data) == PackU32(frame_count) \o frame_data

\* MulticastSender.send(data, compress): the datagram written
SentDatagram(data, compress) == IF compress THEN ZlibCompress(data) ELSE data

\* what arrives on the receiver's socket: frame packets as _send_frame sends
\* them (compressed), the same uncompressed, a frame number 256, a datagram
\* shorter than 4 bytes and an empty one
RxDatagrams ==
    {SentDatagram(FramePacket(n, fd), TRUE) :
        n \in 0..MaxFrameNumber, fd \in FramePayloads}
    \cup {SentDatagram(FramePacket(n, JPEG_SOI \o <<1>>), FALSE) : n \in {1, 256}}
    \cup {<<0, 0, 9>>, <<>>}

\* cv2.imdecode(np.frombuffer(frame_data, np.uint8), cv2.IMREAD_COLOR): the
\* picture (its number), or None for data that is no image
ImDecode(frame_data) ==
    IF Len(frame_data) >= 3 /\ SubSeq(frame_data, 1, 2) = JPEG_SOI
    THEN frame_data[3]
    ELSE None

\* the test `frame_number <= self.last_frame_number`
IsOldOnlyIfSmaller(frame_number) == frame_number < last_frame_number

IsOld(frame_number) == frame_number <= last_frame_number

RxInit ==
    /\ last_frame = None
    /\ last_frame_number = -1
    /\ frames_received_multicast = 0
    /\ accepted = <<>>
    /\ nrx = 0

\* one iteration of MulticastReceiver._receive_loop on the datagram dgram:
\* empty datagrams are skipped, the data is decompressed if it decompresses,
\* and on_data = ScreenReceiverOptimized._on_multicast_data gets it
ReceiveDatagram(dgram) ==
    /\ nrx < MaxDatagrams
    /\ nrx' = nrx + 1
    /\ LET z == ZlibDecompress(dgram)
           data == IF z.ok THEN z.v ELSE dgram
           frame_number == UnpackU32(SubSeq(data, 1, 4))
           frame == ImDecode(Drop(data, 4))
       IN  IF dgram = <<>> \/ Len(data) < 4
           THEN UNCHANGED <<last_frame, last_frame_number,
                            frames_received_multicast, accepted>>
           ELSE IF IsOld(frame_number) \/ frame = None
           THEN UNCHANGED <<last_frame, last_frame_number,
                            frames_received_multicast, accepted>>
           ELSE /\ last_frame' = frame
                /\ last_frame_number' = frame_number
                /\ frames_received_multicast' = frames_received_multicast + 1
                /\ accepted' = Append(accepted, frame_number)

RxNext ==
    \E dgram \in RxDatagrams :
        ReceiveDatagram(dgram)
        /\ UNCHANGED <<asmVars, protoVars, sendVars, srvVars, cliVars, discVars, mcVars, apiVars, reVars>>

InitRx == RxInit /\ AsmIdle /\ ProtoIdle /\ SendIdle /\ SrvIdle /\ CliIdle
          /\ DiscIdle /\ McIdle /\ ApiIdle /\ ReIdle
SpecRx == InitRx /\ [][RxNext]_vars


-----------------------------------------------------------------------------
(* MulticastSender: threads calling send(), one call of close(), and the    *)
(* receivers that joined the group.                                         *)

Receivers == 1..NReceivers

\* the data passed to send
SendData == {<<1, 2, 3>>, <<>>}

\* self.sock.sendto(data, (group, port)): what is written for a group with
\* these members
FanoutPerReceiver(written, dgram, members) ==
    written \o [i \in 1..Cardinality(members) |-> dgram]

Fanout(written, dgram, members) == Append(written, dgram)

McInit ==
    /\ mrunning = TRUE
    /\ msock = "open"
    /\ mgroup \in SUBSET Receivers
    /\ mwire = <<>>
    /\ packets_sent = 0
    /\ mpc = [t \in Senders |-> "idle"]
    /\ mret = [t \in Senders |-> "none"]
    /\ mclosed = FALSE
    /\ nsend = 0

\* send(): `if not self.running or not self.sock: return False`
McSendEnter(t) ==
    /\ mpc[t] = "idle"
    /\ nsend < MaxSends
    /\ nsend' = nsend + 1
    /\ IF ~mrunning \/ msock = "none"
       THEN /\ mret' = [mret EXCEPT ![t] = "False"]
            /\ mpc' = mpc
       ELSE /\ mret' = [mret EXCEPT ![t] = "none"]
            /\ mpc' = [mpc EXCEPT ![t] = "checked"]
    /\ UNCHANGED <<mrunning, msock, mgroup, mwire, packets_sent, mclosed>>

\* send(): compress, self.sock.sendto(...), statistics, return True; sendto
\* raises when the socket has been closed or set to None, or when the system
\* refuses the write (ok = FALSE), and send returns False
McSendTo(t, data, compress, ok) ==
    /\ mpc[t] = "checked"
    /\ mpc' = [mpc EXCEPT ![t] = "idle"]
    /\ IF msock = "open" /\ ok
       THEN /\ mwire' = Fanout(mwire, SentDatagram(data, compress), mgroup)
            /\ packets_sent' = packets_sent + 1
            /\ mret' = [mret EXCEPT ![t] = "True"]
       ELSE /\ mret' = [mret EXCEPT ![t] = "False"]
            /\ UNCHANGED <<mwire, packets_sent>>
    /\ UNCHANGED <<mrunning, msock, mgroup, mclosed, nsend>>

\* close(): self.running = False
McCloseFlag ==
    /\ mrunning
    /\ mrunning' = FALSE
    /\ UNCHANGED <<msock, mgroup, mwire, packets_sent, mpc, mret, mclosed, nsend>>

\* close(): self.sock.close()
McCloseSocket ==
    /\ ~mrunning
    /\ msock = "open"
    /\ msock' = "closed"
    /\ UNCHANGED <<mrunning, mgroup, mwire, packets_sent, mpc, mret, mclosed, nsend>>

\* close(): self.sock = None; close() returns
McCloseDone ==
    /\ msock = "closed"
    /\ msock' = "none"
    /\ mclosed' = TRUE
    /\ UNCHANGED <<mrunning, mgroup, mwire, packets_sent, mpc, mret, nsend>>

McNext ==
    \/ \E t \in Senders :
           McSendEnter(t)
           /\ UNCHANGED <<asmVars, protoVars, sendVars, srvVars, cliVars, discVars, rxVars, apiVars, reVars>>
    \/ \E t \in Senders, data \in SendData, compress \in BOOLEAN, ok \in BOOLEAN :
           McSendTo(t, data, compress, ok)
           /\ UNCHANGED <<asmVars, protoVars, sendVars, srvVars, cliVars, discVars, rxVars, apiVars, reVars>>
    \/ McCloseFlag
       /\ UNCHANGED <<asmVars, protoVars, sendVars, srvVars, cliVars, discVars, rxVars, apiVars, reVars>>
    \/ McCloseSocket
       /\ UNCHANGED <<asmVars, protoVars, sendVars, srvVars, cliVars, discVars, rxVars, apiVars, reVars>>
    \/ McCloseDone
       /\ UNCHANGED <<asmVars, protoVars, sendVars, srvVars, cliVars, discVars, rxVars, apiVars, reVars>>

InitMc == McInit /\ AsmIdle /\ ProtoIdle /\ SendIdle /\ SrvIdle /\ CliIdle
          /\ DiscIdle /\ RxIdle /\ ApiIdle /\ ReIdle
SpecMc == InitMc /\ [][McNext]_vars


-----------------------------------------------------------------------------
(* Properties of the write path *)

\* the frame of thread t lies whole and in one piece on the wire
WholeOnWire(t) ==
    \E p \in 0..(Len(wire) - Len(FrameOf(t))) :
        \A j \in 1..Len(FrameOf(t)) :
            wire[p + j] = [f |-> t, i |-> j, b |-> FrameOf(t)[j]]

\* C2: single-writer mutual exclusion. With concurrent senders and partial
\* writes, every byte on the wire starts a frame or continues the frame of
\* the byte before it; a new frame starts only after the frame before it was
\* written whole or its send failed; so no byte of one frame lies between two
\* bytes of another, and a frame whose send returned True is on the wire
\* whole.
C2_NoInterleaving ==
    /\ \A p \in 1..Len(wire) :
         \/ wire[p].i = 1
         \/ p > 1 /\ wire[p - 1].f = wire[p].f /\ wire[p].i = wire[p - 1].i + 1
    /\ \A p \in 2..Len(wire) :
         wire[p].i = 1 =>
            \/ wire[p - 1].i = Len(FrameOf(wire[p - 1].f))
            \/ tret[wire[p - 1].f] = "false"
    /\ \A a, c \in 1..Len(wire) :
         (a < c /\ wire[a].f = wire[c].f) =>
            \A b \in a..c : wire[b].f = wire[a].f
    /\ \A t \in Senders : tret[t] = "true" => WholeOnWire(t)

\* C2 as stated: the bytes on the wire are always a concatenation of whole
\* frames (followed at most by the written part of the frame in progress):
\* every byte continues the frame before it or starts a frame right after a
\* whole one.
C2_WholeFramesOnly ==
    \A p \in 1..Len(wire) :
        \/ p > 1 /\ wire[p - 1].f = wire[p].f /\ wire[p].i = wire[p - 1].i + 1
        \/ /\ wire[p].i = 1
           /\ p > 1 => wire[p - 1].i = Len(FrameOf(wire[p - 1].f))

C2_Witness ==
    /\ \E t, u \in Senders :
         /\ tpc[t] = "sending" /\ tsent[t] > 0 /\ tsent[t] < Len(FrameOf(t))
         /\ tpc[u] = "wait"

\* C20 as stated: nothing is ever written to a server endpoint's socket after
\* a partially written frame.
C20_NothingAfterTornFrame ==
    ekind = "server" =>
        \A p \in 2..Len(wire) :
            wire[p].f # wire[p - 1].f =>
                wire[p - 1].i = Len(FrameOf(wire[p - 1].f))

\* C20: server endpoint send failure. On a ClientHandler a send_packet that
\* failed (also after part of the frame was written) has returned False and
\* left the handler marked not connected, and every send_packet call that
\* starts while the handler is marked not connected returns False without
\* writing any byte.
C20_SendFailureMarksHandler ==
    /\ [](ekind = "server" =>
            \A t \in Senders : tret[t] = "false" => ~econnected)
    /\ [][\A t \in Senders :
             (ekind = "server" /\ ~econnected /\ tpc[t] = "idle" /\ tpc'[t] # "idle")
                 => (tpc'[t] = "done" /\ tret'[t] = "false" /\ wire' = wire)]_vars

\* one send failed after a partial write, another call returned False and
\* wrote nothing
C20_Witness ==
    /\ ekind = "server"
    /\ \E t, u \in Senders :
         /\ t # u
         /\ tret[t] = "false" /\ tsent[t] > 0 /\ tsent[t] < Len(FrameOf(t))
         /\ tpc[u] = "done" /\ tret[u] = "false"
         /\ \A p \in 1..Len(wire) : wire[p].f # u
         /\ wire[Len(wire)] = [f |-> t, i |-> tsent[t], b |-> FrameOf(t)[tsent[t]]]

-----------------------------------------------------------------------------
(* Properties of the participant registry *)

\* _register_student returned the identity to this connection's thread and
\* the connection has not been closed or marked not connected
Admitted(h, id) == hsid[h] = id /\ hconn[h]

\* C3: at most one live endpoint per identity. In every reachable state, for
\* every identity, at most one connection has been admitted by
\* _register_student for it and is still connected, also when two
\* connections with the same identity register concurrently.
C3_OneLiveEndpointPerIdentity ==
    \A id \in Ids : \A h1, h2 \in Conns :
        (Admitted(h1, id) /\ Admitted(h2, id)) => h1 = h2

\* C4: last connection wins and stays registered. The cleanup of a
\* connection's handler thread (finally -> _unregister_student) never removes
\* a record that another connection registered, never removes that
\* connection's endpoint from client_handlers and never fires
\* on_student_disconnected for it.
C4_CleanupKeepsNewerRecord ==
    [][\A h \in Conns :
          (hpc[h] = "fin" /\ hpc'[h] = "close") =>
              \A id \in Ids :
                  (students[id] # NoRec /\ students[id].reg # h) =>
                      /\ students'[id] = students[id]
                      /\ client_handlers'[id] = client_handlers[id]
                      /\ discFired'[id] = discFired[id]]_vars

\* C5: heartbeat eviction fires on_student_disconnected once. For a
\* registration that the heartbeat sweep evicted, the sweep and the
\* connection handler's own cleanup never both fire on_student_disconnected.
C5_SweepAndCleanupNeverBothFire ==
    \A h \in Conns : ~(h \in sweepFired /\ h \in ownFired)

\* C12: failed handshake leaves no record. When registration of a connection
\* did not succeed (_register_student returned None) and its handler thread
\* has returned, the connection is closed and neither students nor
\* client_handlers holds an entry created by that attempt.
C12_FailedHandshakeLeavesNoRecord ==
    \A h \in Conns :
        (hpc[h] = "dead" /\ hsid[h] = 0) =>
            /\ ~hconn[h]
            /\ \A id \in Ids : students[id].reg # h /\ client_handlers[id] # h

\* C13: malformed registration is rejected. When _register_student returns
\* for a request that lacks the name or the machine identifier, or whose
\* data is not a key-value map, a CONNECTION_REJECTED reply has been written,
\* the connection is closed and no participant record was created for it.
C13_MalformedRegistrationRejected ==
    [][\A h \in Conns :
          (hreq[h] \in {"noName", "noMid", "notMap"} /\ hreq'[h] = "none") =>
              /\ hreply'[h] = "CONNECTION_REJECTED"
              /\ ~hconn'[h]
              /\ \A id \in Ids : students'[id].reg # h]_vars

\* a step that runs entirely inside `with self._students_lock`: the two lock
\* blocks of _register_student, _unregister_student (called from the handler's
\* finally or from the sweep) and the scan of _check_heartbeats
LockedStep ==
    \/ \E h \in Conns : hpc[h] = "r1" /\ hpc'[h] = "r2"
    \/ \E h \in Conns : hpc[h] = "r2" /\ hpc'[h] = "rsend"
    \/ \E h \in Conns : hpc[h] = "fin" /\ hpc'[h] = "close"
    \/ spc = "sleep" /\ spc' = "loop"
    \/ spc = "unreg" /\ spc' # "unreg"

\* C18: the registry lock is never held across a socket operation. No step
\* that runs under _students_lock closes (or otherwise operates on) the
\* socket of any endpoint.
C18_NoSocketOpUnderLock ==
    [][LockedStep => hconn' = hconn]_vars

\* C32: eviction only of stale participants. The heartbeat sweep closes an
\* endpoint only when the record registered under that identity is, at that
\* moment, older than CONNECTION_TIMEOUT, and removes a record only when the
\* record it removes is, at that moment, older than CONNECTION_TIMEOUT: a
\* participant that pinged or re-registered after the scan is left alone.
C32_EvictionOnlyOfStale ==
    [][/\ (spc = "loop" /\ spc' = "unreg" /\ hconn' # hconn) => Stale(scur')
       /\ (spc = "unreg" /\ spc' # "unreg" /\ students' # students) => Stale(scur)]_vars

\* C37: connect and disconnect notifications are matched. For every
\* identity, on_student_disconnected has not been fired more often than
\* on_student_connected.
C37_NotificationsMatched ==
    \A id \in Ids : discFired[id] <= connFired[id]


\* C31: the accept reply is the first frame on a connection. On every
\* connection the first frame the server writes is the CONNECTION_ACCEPTED
\* reply: no frame of a concurrent broadcast_to_all or send_to_student is
\* written to a registering connection before it.
C31_AcceptReplyFirst ==
    \A h \in Conns : hfirst[h] \in {"none", "CONNECTION_ACCEPTED"}


\* C34: send_to_student reports success truthfully. A finished call returned
\* True, and counted messages_sent, only if one complete non-empty frame was
\* written to the endpoint it found for the identity; for a message that
\* cannot be encoded it returned False.
C34_SendReportsTruthfully ==
    qpc = "done" =>
        /\ (qret = "True" => qwrote = "frame" /\ qh # 0)
        /\ (qcounted <=> qret = "True")
        /\ (~qenc => qret = "False")


\* the identities under which connection h was registered when the
\* broadcast_to_all call built its list
RegisteredAs(h) == {id \in DOMAIN bregistered : bregistered[id] = h}

\* C35: broadcast_to_all fan-out. A finished call has called send_packet
\* exactly once on every endpoint that was registered, under an identity not
\* in exclude, when the call took its list, and on no other endpoint; it has
\* written nothing to the endpoint of an excluded identity; and no step of
\* the call changes the registry.
C35_BroadcastFanout ==
    /\ [](bpc = "done" =>
             \A h \in Conns :
                 /\ battempt[h] = IF RegisteredAs(h) \ bexclude # {} THEN 1 ELSE 0
                 /\ (RegisteredAs(h) \cap bexclude # {} => bwrote[h] = 0))
    /\ [][(bpc' # bpc \/ btodo' # btodo) =>
              (students' = students /\ client_handlers' = client_handlers)]_vars


\* C33: nothing is processed before registration. On a connection whose
\* thread has no student_id (it has not registered successfully), no message
\* has been delivered to on_message_received and no PONG has been written,
\* and handling a PING or another message leaves students, client_handlers,
\* the delivered messages and the frames written unchanged.
C33_NothingBeforeRegistration ==
    /\ [](\A h \in Conns :
              hsid[h] = 0 => (h \notin msgFired /\ hreply[h] # "PONG"))
    /\ [][\A h \in Conns :
              (hpc[h] = "msg" /\ hpc'[h] # "msg" /\ hsid[h] = 0) =>
                  /\ students' = students
                  /\ client_handlers' = client_handlers
                  /\ msgFired' = msgFired
                  /\ hreply' = hreply
                  /\ hpc'[h] = "recv"]_vars

\* a connection that has not registered has handled a PING and is still open
C33_Witness ==
    \E h \in Conns :
        /\ hsid[h] = 0 /\ hlast[h] = "PING" /\ hpc[h] = "recv" /\ hconn[h]
        /\ hreq[h] = "none" /\ students[hmid[h]] = NoRec


\* C40: registry consistency. In every state in which no thread is inside a
\* block under _students_lock, students and client_handlers hold exactly the
\* same identities, whatever the interleaving of registrations,
\* unregistrations, heartbeat evictions and stop().
C40_RegistryConsistency ==
    \A id \in Ids : (students[id] # NoRec) <=> (client_handlers[id] # 0)

\* stop() has cleared the registry and a connection that was registering
\* meanwhile has stored its record and its handler afterwards
C40_Witness ==
    /\ stoppc = "done"
    /\ \E id \in Ids : students[id] # NoRec /\ client_handlers[id] # 0


\* C38: callbacks run without the registry lock. A thread that is inside
\* on_student_connected, on_student_disconnected or on_message_received does
\* not hold _students_lock, so a callback that calls get_students() or
\* get_student_count() is never left waiting for a lock its own thread holds.
C38_CallbacksWithoutLock ==
    \A h \in Conns :
        incb[h].cb # "none" => students_lock # h


-----------------------------------------------------------------------------
(* Properties of the client *)

\* C14: a failed connect leaves nothing open. Whenever connect_to_teacher
\* has returned False, the client's TCP socket has been closed and the client
\* is not connected.
C14_FailedConnectClosesSocket ==
    cpc = "failed" => (csock = "none" /\ ~cconnected)

\* no thread of the client is about to change the connection state: no
\* disconnect() is in progress, the receive loop waits in recv with nothing
\* to read and the server keeps the connection open
ClientAtRest ==
    /\ \A t \in DThreads : dpc[t] = "none"
    /\ rpc = "run"
    /\ cwire = <<>>
    /\ srvOpen

\* C15: heartbeat failure disconnects. After the heartbeat loop failed to
\* send a PING while the client was connected, the loop has ended and the
\* client has made the DISCONNECTED transition (connected is False, the
\* socket is closed, on_disconnected has fired) by the time its threads are
\* at rest.
C15_HeartbeatFailureDisconnects ==
    (hbFailed /\ ClientAtRest) =>
        (hbpc = "ended" /\ ~cconnected /\ csock = "none" /\ cdisc >= 1)

\* C16: complete delivery on the client. While the client stays connected,
\* once it has read everything the server wrote, the frames handed to
\* on_message_received are exactly the non-PONG message frames the server
\* wrote after the accept reply, each once and in the order written, however
\* the frames were grouped into reads.
C16_CompleteDelivery ==
    (cpc = "up" /\ cconnected /\ rpc = "run" /\ cwire = <<>>) =>
        delivered = expected

\* C17: disconnect() is idempotent. For one successful connect the socket is
\* closed by disconnect() at most once and on_disconnected fires at most
\* once, however often and from whichever threads disconnect() is called.
C17_DisconnectAtMostOnce ==
    closes <= 1 /\ cdisc <= 1

\* C19: protocol errors never end the read loop. A read of the receive loop
\* that returns frames (whatever they decode to) leaves the loop running and
\* the client connected.
C19_BadFrameKeepsLoopRunning ==
    [][(rpc = "run" /\ Len(cwire') < Len(cwire)) =>
          (rpc' = "run" /\ cconnected')]_vars

\* the lock block of the PING branch of connection h runs in this step
PingHandled(h) == hpc[h] = "recv" /\ hpc'[h] = "pong"

\* the PING branch sets the participant's last_seen to the current time
PingSetsLastSeen ==
    \A h \in Conns :
        PingHandled(h) =>
            /\ students'[hsid[h]] # NoRec
            /\ students'[hsid[h]].last_seen = now

\* the PING branch writes a PONG to the same connection, unless the connection
\* has been closed or its socket fails
PingAnsweredByPong ==
    \A h \in Conns :
        (hpc[h] = "pong" /\ hpc'[h] = "recv" /\ hconn'[h]) =>
            hreply'[h] = "PONG"

\* last_seen of a record never decreases
LastSeenMonotonic ==
    \A id \in Ids :
        (students[id] # NoRec /\ students'[id] # NoRec) =>
            students'[id].last_seen >= students[id].last_seen

\* the sweep selects only records whose last_seen is more than
\* CONNECTION_TIMEOUT old
SweepSelectsOnlyStale ==
    (spc = "sleep" /\ spc' = "loop") =>
        \A id \in to_remove' :
            now - students[id].last_seen > CONNECTION_TIMEOUT

\* C25 as stated: ping handling. For every PING received on a registered
\* connection the server sets that participant's last-heartbeat timestamp to
\* the current time and writes a PONG to the same connection; the timestamp
\* never decreases, and the sweep never selects a participant whose last
\* PING was processed within CONNECTION_TIMEOUT.
C25_PingHandling ==
    [][/\ PingSetsLastSeen
       /\ PingAnsweredByPong
       /\ LastSeenMonotonic
       /\ SweepSelectsOnlyStale]_vars


C39_ReconnectNotTornDown ==
    /\ [](\A p \in kpings : p[1] = p[2])
    /\ [][\A g \in Loops :
            g < kacc =>
              /\ ~(kdpc[g] = "d1" /\ kdpc'[g] = "d2")
              /\ kdpc'[g] # kdpc[g] =>
                    /\ kconnected' = kconnected
                    /\ kacc \in kopen => kacc \in kopen'
              /\ ~(krpc[g] = "run" /\ krpc'[g] = "sock")
              /\ ~(khpc[g] = "run" /\ khpc'[g] = "send")]_vars


-----------------------------------------------------------------------------
(* Properties of TCPPacketAssembler.feed *)

AllFrames == \A i \in 1..Len(segs) : segs[i] \in FrameKinds

\* the segments that have been fed completely once p bytes were fed
FedSegs(p) == {i \in 1..Len(segs) : SegEnd(segs, i) <= p}

\* the frames F1..Fk whose last byte is among the first p bytes of the stream
ExpectedOut(p) ==
    [i \in 1..Cardinality(FedSegs(p)) |->
        [frame |-> SegBytes(segs[i]), start |-> SegStart(segs, i)]]

IsPrefix(s, t) == Len(s) <= Len(t) /\ s = SubSeq(t, 1, Len(s))

\* C1: chunking invariance. On a stream of valid frames, cut into chunks in
\* any way, after every feed() call the packets returned so far are exactly
\* the frames whose last byte has been fed, in order and byte-identical; a
\* running call has collected nothing but such frames. Hence each frame is
\* returned by the call that supplies its last byte.
C1_ChunkingInvariance ==
    AllFrames =>
        /\ apc = "idle" => out = ExpectedOut(pos)
        /\ apc = "loop" => IsPrefix(out \o packets, ExpectedOut(pos))

C1_Witness ==
    /\ AllFrames /\ Len(segs) = 3
    /\ apc = "idle" /\ calls >= 3
    /\ Len(out) = 2 /\ buffer # <<>> /\ pos < Len(stream)

\* the stream is non-empty garbage without the magic, then one valid frame
GarbageThenFrame ==
    /\ Len(segs) >= 2
    /\ segs[Len(segs)] \in FrameKinds
    /\ \A i \in 1..(Len(segs) - 1) : segs[i] \in GarbageKinds

GarbageLen == SegStart(segs, Len(segs))

TheFrame == [frame |-> SegBytes(segs[Len(segs)]), start |-> GarbageLen]

FedAll == apc = "idle" /\ pos = Len(stream)

C7_NoValidFrameLost ==
    apc = "idle" =>
        \A i \in FedSegs(pos) :
            segs[i] \in FrameKinds =>
                \E j \in 1..Len(out) :
                    /\ out[j].start = SegStart(segs, i)
                    /\ out[j].frame = SegBytes(segs[i])

WellFormed(frame) ==
    /\ Len(frame) >= HEADER_SIZE
    /\ SubSeq(frame, 1, 4) = MAGIC
    /\ Len(frame) = HEADER_SIZE + UnpackU32(SubSeq(frame, 7, 10))
    /\ Len(frame) <= MaxPacketSize

\* C8: every byte string feed() returns starts with the magic, is as long as
\* its own header declares, and is no longer than the configured maximum.
C8_OversizedRejection ==
    /\ \A j \in 1..Len(out) : WellFormed(out[j].frame)
    /\ \A j \in 1..Len(packets) : WellFormed(packets[j].frame)

C8_Witness ==
    /\ segs[1] = "OVER"
    /\ apc = "idle"
    /\ Len(out) >= 1

\* C9: an iteration of the feed loop that does not leave the loop strictly
\* shortens the buffer, and a call makes no more such iterations than it had
\* bytes buffered.
C9_FeedTerminates ==
    [][(apc = "loop" /\ apc' = "loop") =>
          (Len(buffer') < Len(buffer) /\ iters' <= startLen)]_vars

C9_Witness ==
    /\ segs[1] = "OVER"
    /\ apc = "loop"
    /\ iters >= 3

\* the buffer is the beginning of one frame that is still incomplete and whose
\* declared total length is within the configured maximum
IncompleteFramePrefix(buf) ==
    /\ Len(buf) >= HEADER_SIZE
    /\ Take(buf, 4) = MAGIC
    /\ GetPacketLength(Take(buf, HEADER_SIZE)) # None
    /\ GetPacketLength(Take(buf, HEADER_SIZE)) <= MaxPacketSize
    /\ Len(buf) < GetPacketLength(Take(buf, HEADER_SIZE))

\* C21: bounded assembler buffer. Whenever feed() has returned, the buffer
\* holds strictly fewer bytes than the configured maximum frame size: it holds
\* fewer than 11 bytes (among them the 3 bytes kept after a failed magic
\* search), or the beginning of one incomplete frame whose declared total
\* length is within the maximum.
C21_BoundedBuffer ==
    apc = "idle" =>
        /\ Len(buffer) < MaxPacketSize
        /\ Len(buffer) < HEADER_SIZE \/ IncompleteFramePrefix(buffer)

\* an oversized header was fed and skipped, more than the maximum frame size
\* has been fed in all, and the buffer holds an incomplete frame
C21_Witness ==
    /\ segs[1] = "OVER"
    /\ apc = "idle"
    /\ pos > MaxPacketSize
    /\ IncompleteFramePrefix(buffer)


\* the running call is at the top of its loop with a header at the start of
\* the buffer
HeaderAtStart ==
    /\ apc = "loop"
    /\ Len(buffer) >= HEADER_SIZE
    /\ Take(buffer, 4) = MAGIC

\* C22 as stated: with L the total frame length read from the header at the
\* start of the buffer, an iteration of feed() discards the header as
\* oversized (drops one byte) if and only if L exceeds the maximum payload
\* size plus the header size; the assembler's maximum is max_packet_size.
C22_OversizeThreshold ==
    [][HeaderAtStart =>
          ((buffer' = SkipOne(buffer)) <=>
           (GetPacketLength(Take(buffer, HEADER_SIZE))
                > MaxPacketSize + HEADER_SIZE))]_vars


\* a call of feed() that returns without entering the loop: feed(b'')
EmptyFeedStep == apc = "idle" /\ apc' = "idle"

\* C30: assembler statistics. At every moment packets_assembled is the number
\* of frames returned by the calls so far plus those the running call has
\* collected, and bytes_processed is the number of bytes passed to feed();
\* feed(b'') returns an empty list and changes neither the buffer nor any
\* counter.
C30_AssemblerStatistics ==
    /\ [](/\ packets_assembled = Len(out) + Len(packets)
          /\ bytes_processed = pos
          /\ apc = "idle" => packets = <<>>)
    /\ [][EmptyFeedStep =>
             UNCHANGED <<buffer, out, packets, packets_assembled,
                         bytes_processed, sync_recoveries>>]_vars

\* three calls on a stream with garbage in it; the whole stream was fed and
\* two frames were returned
C30_Witness ==
    /\ apc = "idle"
    /\ calls = 3
    /\ \E i \in 1..Len(segs) : segs[i] \in GarbageKinds
    /\ packets_assembled = 2
    /\ Len(out) = 2
    /\ bytes_processed = Len(stream)


-----------------------------------------------------------------------------
(* Properties of Protocol.pack / Protocol.unpack *)

\* C10: round trip. unpack(pack(msg_type, data, compress)) is a message
\* whose type is msg_type and whose data is data, with and without
\* compression, for serialized payloads up to and above 1024 bytes.
C10_RoundTrip ==
    ppc = "unpacked" =>
        /\ unpacked.ok
        /\ Get(unpacked.v, KEY_TYPE) = [ok |-> TRUE, v |-> JS(m_type)]
        /\ Get(unpacked.v, KEY_DATA) = [ok |-> TRUE, v |-> m_data]

C10_Witness ==
    /\ ppc = "unpacked"
    /\ m_compress
    /\ packed[HEADER_SIZE] = 1
    /\ Len(packed) > HEADER_SIZE + COMPRESS_THRESHOLD
    /\ unpacked.ok
    /\ Get(unpacked.v, KEY_DATA).v = m_data

\* the payload length the header of data declares
DeclaredLength(data) == UnpackU32(SubSeq(data, 7, 10))

\* C11: frame integrity. Protocol.unpack returns None for empty input, for
\* input shorter than 11 bytes, for input whose first 4 bytes are not the
\* magic constant, and for input with a valid header whose declared payload
\* length exceeds the number of payload bytes present.
C11_UnpackRejectsInvalid ==
    ppc = "checked" =>
        /\ Len(packed) < HEADER_SIZE => ~unpacked.ok
        /\ (Len(packed) >= HEADER_SIZE /\ SubSeq(packed, 1, 4) # MAGIC)
               => ~unpacked.ok
        /\ (Len(packed) >= HEADER_SIZE /\ SubSeq(packed, 1, 4) = MAGIC
                /\ DeclaredLength(packed) > Len(packed) - HEADER_SIZE)
               => ~unpacked.ok

\* a whole payload behind a header that declares one byte more
C11_Witness ==
    /\ ppc = "checked"
    /\ Len(packed) > HEADER_SIZE
    /\ SubSeq(packed, 1, 4) = MAGIC
    /\ DeclaredLength(packed) = Len(packed) - HEADER_SIZE + 1
    /\ DeserializeMessage(Drop(packed, HEADER_SIZE)).ok
    /\ ~unpacked.ok

\* C23 as stated: pack respects the payload ceiling. A frame returned by
\* pack never carries more payload bytes than the maximum payload size, and
\* every non-empty result of pack, fed to a fresh assembler, is returned by
\* feed() as exactly that frame.
C23_PackRespectsCeiling ==
    (ppc = "packed" /\ packed # <<>>) =>
        /\ Len(packed) - HEADER_SIZE <= MAX_PACKET_SIZE
        /\ FeedFresh(packed) = <<packed>>


\* C24: header consistency. Every non-empty result of pack begins with the
\* magic constant, declares in its header exactly the number of payload
\* bytes that follow the 11-byte header, and get_packet_length on its first
\* 11 bytes returns the frame's total length. On damaged data,
\* get_packet_length returns None when given fewer than 11 bytes or a header
\* whose magic is wrong.
C24_HeaderConsistency ==
    /\ (ppc = "packed" /\ packed # <<>>) =>
           /\ Len(packed) >= HEADER_SIZE
           /\ Take(packed, 4) = MAGIC
           /\ DeclaredLength(packed) = Len(packed) - HEADER_SIZE
           /\ GetPacketLength(Take(packed, HEADER_SIZE)) = Len(packed)
    /\ ppc \in {"damaged", "checked"} =>
           /\ Len(packed) < HEADER_SIZE => GetPacketLength(packed) = None
           /\ (Len(packed) >= HEADER_SIZE /\ Take(packed, 4) # MAGIC) =>
                  GetPacketLength(Take(packed, HEADER_SIZE)) = None

\* a compressed frame longer than 1 KiB whose header gives its total length
C24_Witness ==
    /\ ppc = "packed"
    /\ packed[HEADER_SIZE] = 1
    /\ Len(packed) > HEADER_SIZE + COMPRESS_THRESHOLD
    /\ GetPacketLength(Take(packed, HEADER_SIZE)) = Len(packed)


\* the serialized message pack started from
Serialized == SerializeMessage(m_type, m_ts, m_data)

\* C29: compression rule of pack. The flag byte of a frame returned by pack
\* is 1, and its payload decompresses to the serialized message, if and only
\* if compress is true and the serialized message is longer than 1024 bytes;
\* otherwise the flag is 0 and the payload is the serialized message itself.
C29_CompressionRule ==
    (ppc \in {"packed", "unpacked"} /\ packed # <<>>) =>
        IF m_compress /\ Len(Serialized) > 1024
        THEN /\ packed[HEADER_SIZE] = 1
             /\ ZlibDecompress(Drop(packed, HEADER_SIZE)) =
                    [ok |-> TRUE, v |-> Serialized]
             /\ Drop(packed, HEADER_SIZE) # Serialized
        ELSE /\ packed[HEADER_SIZE] = 0
             /\ Drop(packed, HEADER_SIZE) = Serialized

\* a serialized message of 1025 bytes, one above the threshold, compressed
C29_Witness ==
    /\ ppc = "packed"
    /\ m_compress
    /\ Len(Serialized) = COMPRESS_THRESHOLD + 1
    /\ packed[HEADER_SIZE] = 1

\* a serialized message of exactly 1024 bytes is not compressed
C29_AtThreshold ==
    /\ ppc = "packed"
    /\ m_compress
    /\ Len(Serialized) = COMPRESS_THRESHOLD
    /\ packed[HEADER_SIZE] = 0


-----------------------------------------------------------------------------
(* Properties of discovery *)

\* the id under which the announcement key k = (address, port) is stored
IdOf(k) == TeacherId(k[1], k[2])

\* C26: discovery deduplication. After any sequence of datagrams,
\* available_teachers holds exactly one entry per distinct (source address,
\* announced port) of the announcements handled, that entry carries this
\* address and port, and on_teacher_found has been called exactly once per
\* distinct key.
C26_DiscoveryDeduplication ==
    /\ DOMAIN available_teachers = {IdOf(k) : k \in heard}
    /\ Cardinality(DOMAIN available_teachers) = Cardinality(heard)
    /\ \A k \in heard :
           /\ available_teachers[IdOf(k)].ip_address = k[1]
           /\ available_teachers[IdOf(k)].port = k[2]
           /\ Cardinality({i \in 1..Len(teacherFound) : teacherFound[i] = IdOf(k)}) = 1
    /\ Len(teacherFound) = Cardinality(heard)

\* three announcements, two of them with the same key and different names
C26_Witness ==
    /\ nheard = 3
    /\ Cardinality(heard) = 2
    /\ Len(teacherFound) = 2
    /\ \E id \in DOMAIN available_teachers :
           available_teachers[id].name.v = JS(<<85>>)


-----------------------------------------------------------------------------
(* Properties of the fan-out channel *)

StrictlyIncreasing(s) == \A i \in 1..(Len(s) - 1) : s[i] < s[i + 1]

\* C27: out-of-order and duplicate rejection. For any arrival order of the
\* datagrams, the accepted frame numbers are strictly increasing, the last
\* of them is last_frame_number, and the current frame is replaced only by a
\* frame that is accepted, that is, whose number is strictly greater than
\* the last accepted one.
C27_StaleFramesRejected ==
    /\ [](/\ StrictlyIncreasing(accepted)
          /\ Len(accepted) = frames_received_multicast
          /\ last_frame_number =
                 IF accepted = <<>> THEN -1 ELSE accepted[Len(accepted)])
    /\ [][(last_frame' # last_frame \/ last_frame_number' # last_frame_number) =>
             /\ Len(accepted') = Len(accepted) + 1
             /\ last_frame_number' > last_frame_number]_vars

\* of three datagrams two were accepted, frames 1 and 3 with the same
\* picture, and the third left the current frame alone
C27_Witness ==
    /\ nrx = 3
    /\ accepted = <<1, 3>>
    /\ last_frame = 1
    /\ last_frame_number = 3


\* thread t is inside send(), past the running check, in this step's start
\* state and has returned in its end state
SendReturns(t) == mpc[t] = "checked" /\ mpc'[t] = "idle"

\* C28 as stated: each send call on a sender that is not closed performs
\* exactly one datagram write to the group address.
C28_EverySendWritesOne ==
    [][\A t \in Senders :
          (SendReturns(t) /\ mrunning /\ msock = "open") =>
              Len(mwire') = Len(mwire) + 1]_vars

\* C28 amended: O(1) fan-out. Whatever the number of receivers in the group, a send
\* call that returns True has written exactly one datagram, no step writes
\* more than one, and a call that returns False has written none; once
\* close() has returned, nothing is written any more, no send call gets past
\* the running check and every send returns False.
C28_OneDatagramPerSend ==
    [][\A t \in Senders :
          /\ (SendReturns(t) /\ mret'[t] = "True") =>
                 Len(mwire') = Len(mwire) + 1
          /\ (SendReturns(t) /\ mret'[t] = "False") => mwire' = mwire
          /\ ~(\E u \in Senders : SendReturns(u)) => mwire' = mwire
          /\ mclosed =>
                 /\ mwire' = mwire
                 /\ mret'[t] # mret[t] => mret'[t] = "False"
                 /\ nsend' # nsend => mpc' = mpc]_vars

\* with two receivers in the group, one send wrote one datagram, then the
\* sender was closed and a later send returned False
C28_Witness ==
    /\ Cardinality(mgroup) = 2
    /\ mclosed
    /\ nsend = 3
    /\ Len(mwire) = 1
    /\ \E t \in Senders : mret[t] = "False"


=============================================================================
